---- MODULE Spec2Model ----
(***************************************************************************)
(* A model of the nmrfit peak-fitting engine.                              *)
(*                                                                         *)
(*   - FitUtility (src/nmrfit/core.py): the constructor stores its         *)
(*     arguments and runs fit(): _compute_weights, pyswarm.pso, then the   *)
(*     result is stored and the area fraction derived.                     *)
(*   - objective (src/NMRfit_module.py): the weighted residual.            *)
(*   - shift_phase and the inverse rotation of generate_result.            *)
(*                                                                         *)
(* Arithmetic is exact.  Real numbers are integers or rationals <<n, d>>;  *)
(* weights before smoothing are counted in tenths (0.1 is 1, 1.0 is 10).   *)
(* Floating-point rounding and the special values inf and nan are not      *)
(* represented.  Python's 0-based index k is the index k + 1 here.         *)
(***************************************************************************)
EXTENDS Integers, Sequences, FiniteSets, TLC

VARIABLES
    \* ---- FitUtility (src/nmrfit/core.py) ----
    pc,          \* position of the constructor / fit() call
    peaks,       \* data.peaks: sequence of [bounds, height]
    lower,       \* self.lower
    upper,       \* self.upper
    expon,       \* self.expon, stored as twice the exponent (0, 1/2, 1)
    rawWeights,  \* the local "weights" of _compute_weights before laplace1d
    weights,     \* self.weights (smoothed), numerators over WeightDen
    psoCalls,    \* number of calls of pyswarm.pso
    evaluated,   \* the candidates the optimizer passed to the objective
    result,      \* self.result
    \* ---- objective (src/NMRfit_module.py) ----
    o_pc,        \* "ready" before the call, "called" after it
    o_x0,        \* the parameter vector
    o_u, o_v,    \* the data arrays u and v
    o_line,      \* the sampled line shapes of the peaks of o_x0
    o_weights,   \* the weights argument: None or a list of entries
    o_fitIm,     \* the fitIm flag
    o_out,       \* what the call returned
    \* ---- the area fraction ----
    a_pc,        \* "ready" before the calls, "called" after them
    a_params,    \* result.params
    a_areas,     \* the area attribute of every peak of the data
    a_fraction,  \* what FitUtility._calculate_area_fraction returned
    a_approx,    \* what Data.approximate_area_fraction returned
    \* ---- the phase transform ----
    p_pc,        \* "ready", "shifted" (forward applied), "restored"
    p_u, p_v,    \* the raw arrays
    p_theta,     \* the angle
    p_V, p_I,    \* the rotated arrays
    p_u2, p_v2,  \* the arrays rotated back
    \* ---- Data.brute_phase (src/package/containers.py) ----
    b_pc,        \* "scan" inside the loop, "done" after the return
    b_step,      \* the step argument, in twelfths of a full turn
    b_ps2,       \* what ps2(self.u, self.v, theta, 0) gives as V, per angle
    b_k,         \* how many angles of the scan the loop has visited
    b_bestTheta, \* bestTheta
    b_bestError, \* bestError
    b_V,         \* self.V
    b_p0,        \* self.p0
    b_ret,       \* the returned angle
    \* ---- run_fit (src/benchmark.py): two fits in a row ----
    s_pc,        \* position in run_fit
    s_x0,        \* the list x0
    s_bounds,    \* bounds
    s_heap,      \* the Result objects created so far
    s_fit,       \* fit.result: index in s_heap of the current fit's result
    s_res,       \* res: index in s_heap of the object res refers to
    s_calls,     \* the calls of the minimizer: arguments and what it returned
    s_row,       \* row
    \* ---- FitUtility.fit with the swarm of pyswarm.pso unfolded ----
    w_pc,        \* "init", "ready" (weights built), "map", "done"
    w_f,         \* the objective: its value at every position
    w_processes, \* mp.cpu_count() - 1
    w_built,     \* number of calls of _compute_weights
    w_weights,   \* self.weights: 0 before it is built, then its build number
    w_it,        \* it: 0 during the initial evaluation, then 1, 2, ...
    w_x,         \* x: the position of every particle
    w_fx,        \* fx: per particle the last value collected and its iteration
    w_pending,   \* the particles handed to the pool whose value is not back
    w_p, w_fp,   \* p, fp: the best position and value of every particle
    w_g, w_fg,   \* g, fg: the best position and value of the swarm
    w_used,      \* the weight fields the evaluations so far were given
    w_low,       \* the lowest objective value evaluated so far
    w_stop,      \* why pso returned: "minfunc", "minstep" or "maxiter"
    w_result,    \* self.result
    \* ---- two evaluations of the objective on shared arrays ----
    m_heap,      \* the arrays in memory: value and the evaluation that made it
    m_pc,        \* per evaluation: "start", "peaks", "residual", "done"
    m_x0,        \* per evaluation: the address of its parameter vector
    m_line,      \* per evaluation: the sampled line shapes of its peaks
    m_env,       \* per evaluation: the addresses V_data, V_fit, I_data, I_fit
    m_k,         \* per evaluation: the triple the loop over x0[3:] is at
    m_fitIm,     \* fitIm
    m_out,        \* per evaluation: what it returned
    \* ---- FitUtility.fit and generate_result on one data object ----
    d_data,      \* self.data: w, u, v, V, I and the peaks
    d_result,    \* self.result
    d_calls,      \* the number of calls made so far
    \* ---- Data.select_bounds (src/package/containers.py) ----
    c_pc,        \* "call", "selector", "applied", "done"
    c_heap,      \* the arrays in memory
    c_data,      \* the Data object: the addresses of its w, u, v
    c_bs,        \* the BoundsSelector: the addresses of its w, u, v
    c_args,      \* low and high if they were passed, the two clicks otherwise
    c_ret,        \* what apply_bounds returned: three addresses
    c_applied,   \* the calls returned so far: low, high, and the arrays then held
    \* ---- the layout of the vectors ----
    l_pc,        \* "data", "bounds", "evaluated", "derived"
    l_peaks,     \* the peaks of the data: width, loc, bounds, area
    l_p0,        \* self.p0, in hundredths
    l_lower,     \* lower of generate_initial_conditions, in hundredths
    l_upper,     \* upper of generate_initial_conditions, in hundredths
    l_x,         \* the vector handed to the objective
    l_objRead,   \* what the objective did: positions read, raised or not
    l_resRead,    \* what generate_result did: positions read, raised or not
    \* ---- fits run one after another in one process ----
    r_rng,       \* the state of the generator behind np.random
    r_log,        \* the fits made so far: stage, inputs, params and error
    \* ---- one FitUtility object from its construction on ----
    f_pc,        \* "none", "init" (in __init__), "entry" (in _core.fit), "ready"
    f_via,       \* how it is made: "class" (FitUtility(...)) or "entry" (fit(...))
    f_given,     \* a parameter vector the caller holds
    f_result,    \* self.result: params, error and the curves
    f_optCalls,  \* the number of runs of the optimizer
    f_last,      \* the last method called on the object and what it did
    f_ops,        \* the number of method calls made on the object
    \* ---- the area fraction in floating point ----
    g_pc,        \* "ready" before the call, "called" after it
    g_areas,     \* areas, as floating-point numbers
    g_m,         \* m = np.mean(areas)
    g_peaks,     \* peaks = areas[areas >= m].sum()
    g_sats,      \* sats = areas[areas < m].sum()
    g_fraction,   \* area_fraction, as the pair <<sats, peaks + sats>>
    \* ---- the interactive selectors (src/NMRfit_module.py) ----
    k_bsOpen,    \* BoundsSelector: its figure is open
    k_bounds,    \* BoundsSelector: self.bounds
    k_crop,      \* BoundsSelector: low and high of apply_bounds, once it ran
    k_psOpen,    \* PeakSelector: its figure is open
    k_points,    \* PeakSelector: self.points
    k_parsed,    \* PeakSelector: the number of calls of parse_points
    k_peak,      \* PeakSelector: bounds, width and the location estimate
    k_events     \* PeakSelector: the click events received, in order

fitVars == <<pc, peaks, lower, upper, expon, rawWeights, weights, psoCalls,
             evaluated, result>>

objVars == <<o_pc, o_x0, o_u, o_v, o_line, o_weights, o_fitIm, o_out>>

areaVars == <<a_pc, a_params, a_areas, a_fraction, a_approx>>

phaseVars == <<p_pc, p_u, p_v, p_theta, p_V, p_I, p_u2, p_v2>>

bruteVars == <<b_pc, b_step, b_ps2, b_k, b_bestTheta, b_bestError, b_V, b_p0, b_ret>>

stageVars == <<s_pc, s_x0, s_bounds, s_heap, s_fit, s_res, s_calls, s_row>>

psoVars == <<w_pc, w_f, w_processes, w_built, w_weights, w_it, w_x, w_fx, w_pending,
             w_p, w_fp, w_g, w_fg, w_used, w_low, w_stop, w_result>>

memVars == <<m_heap, m_pc, m_x0, m_line, m_env, m_k, m_fitIm, m_out>>

derivVars == <<d_data, d_result, d_calls>>

cropVars == <<c_pc, c_heap, c_data, c_bs, c_args, c_ret, c_applied>>

layoutVars == <<l_pc, l_peaks, l_p0, l_lower, l_upper, l_x, l_objRead, l_resRead>>

repeatVars == <<r_rng, r_log>>

useVars == <<f_pc, f_via, f_given, f_result, f_optCalls, f_last, f_ops>>

roundVars == <<g_pc, g_areas, g_m, g_peaks, g_sats, g_fraction>>

clickVars == <<k_bsOpen, k_bounds, k_crop, k_psOpen, k_points, k_parsed, k_peak, k_events>>

vars ==
    <<fitVars, objVars, areaVars, phaseVars, bruteVars, stageVars, psoVars, memVars, derivVars, cropVars, layoutVars, repeatVars, useVars, roundVars, clickVars>>

\* what an operation of one part leaves alone: the variables of the others
notFitVars ==
    <<objVars, areaVars, phaseVars, bruteVars, stageVars, psoVars, memVars, derivVars, cropVars, layoutVars, repeatVars, useVars, roundVars, clickVars>>
notObjVars ==
    <<fitVars, areaVars, phaseVars, bruteVars, stageVars, psoVars, memVars, derivVars, cropVars, layoutVars, repeatVars, useVars, roundVars, clickVars>>
notAreaVars ==
    <<fitVars, objVars, phaseVars, bruteVars, stageVars, psoVars, memVars, derivVars, cropVars, layoutVars, repeatVars, useVars, roundVars, clickVars>>
notPhaseVars ==
    <<fitVars, objVars, areaVars, bruteVars, stageVars, psoVars, memVars, derivVars, cropVars, layoutVars, repeatVars, useVars, roundVars, clickVars>>
notBruteVars ==
    <<fitVars, objVars, areaVars, phaseVars, stageVars, psoVars, memVars, derivVars, cropVars, layoutVars, repeatVars, useVars, roundVars, clickVars>>
notStageVars ==
    <<fitVars, objVars, areaVars, phaseVars, bruteVars, psoVars, memVars, derivVars, cropVars, layoutVars, repeatVars, useVars, roundVars, clickVars>>
notPsoVars ==
    <<fitVars, objVars, areaVars, phaseVars, bruteVars, stageVars, memVars, derivVars, cropVars, layoutVars, repeatVars, useVars, roundVars, clickVars>>
notMemVars ==
    <<fitVars, objVars, areaVars, phaseVars, bruteVars, stageVars, psoVars, derivVars, cropVars, layoutVars, repeatVars, useVars, roundVars, clickVars>>
notDerivVars ==
    <<fitVars, objVars, areaVars, phaseVars, bruteVars, stageVars, psoVars, memVars, cropVars, layoutVars, repeatVars, useVars, roundVars, clickVars>>
notCropVars ==
    <<fitVars, objVars, areaVars, phaseVars, bruteVars, stageVars, psoVars, memVars, derivVars, layoutVars, repeatVars, useVars, roundVars, clickVars>>
notLayoutVars ==
    <<fitVars, objVars, areaVars, phaseVars, bruteVars, stageVars, psoVars, memVars, derivVars, cropVars, repeatVars, useVars, roundVars, clickVars>>
notRepeatVars ==
    <<fitVars, objVars, areaVars, phaseVars, bruteVars, stageVars, psoVars, memVars, derivVars, cropVars, layoutVars, useVars, roundVars, clickVars>>
notUseVars ==
    <<fitVars, objVars, areaVars, phaseVars, bruteVars, stageVars, psoVars, memVars, derivVars, cropVars, layoutVars, repeatVars, roundVars, clickVars>>
notRoundVars ==
    <<fitVars, objVars, areaVars, phaseVars, bruteVars, stageVars, psoVars, memVars, derivVars, cropVars, layoutVars, repeatVars, useVars, clickVars>>
notClickVars ==
    <<fitVars, objVars, areaVars, phaseVars, bruteVars, stageVars, psoVars, memVars, derivVars, cropVars, layoutVars, repeatVars, useVars, roundVars>>

(***************************************************************************)
(* Bounds of the model.                                                    *)
(***************************************************************************)
MaxPeaks == 2
MaxObjPeaks == 2
MaxEntries == 2
MaxAreaPeaks == 6
MaxPhaseLen == 2
MaxScan == 6
MaxStagePeaks == 6
SwarmSize == 2
MaxIter == 2
MaxCalls == 3
MaxLayoutPeaks == 3
MaxFits == 3
MaxFloatPeaks == 3
MaxCrops == 2

(***************************************************************************)
(* Arithmetic helpers.                                                     *)
(***************************************************************************)
Abs(x) == IF x < 0 THEN -x ELSE x

Min2(a, b) == IF a <= b THEN a ELSE b
Max2(a, b) == IF a >= b THEN a ELSE b

RECURSIVE SumSeq(_)
SumSeq(s) == IF s = <<>> THEN 0 ELSE s[1] + SumSeq(Tail(s))

RECURSIVE IntPow(_, _)
IntPow(b, e) == IF e = 0 THEN 1 ELSE b * IntPow(b, e - 1)

RECURSIVE GCD(_, _)
GCD(a, b) == IF b = 0 THEN a ELSE GCD(b, a % b)

\* rationals <<n, d>> with d > 0, kept in lowest terms
Norm(q) == LET g == GCD(Abs(q[1]), q[2]) IN <<q[1] \div g, q[2] \div g>>
RInt(n) == <<n, 1>>
RAdd(a, b) == Norm(<<a[1] * b[2] + b[1] * a[2], a[2] * b[2]>>)
RSub(a, b) == Norm(<<a[1] * b[2] - b[1] * a[2], a[2] * b[2]>>)
RMul(a, b) == Norm(<<a[1] * b[1], a[2] * b[2]>>)
RHalf(a) == Norm(<<a[1], 2 * a[2]>>)
REq(a, b) == a[1] * b[2] = b[1] * a[2]

RECURSIVE RSum(_)
RSum(s) == IF s = <<>> THEN RInt(0) ELSE RAdd(s[1], RSum(Tail(s)))

\* the integer square root (largest k with k * k <= n)
ISqrt(n) == CHOOSE k \in 0..n : k * k <= n /\ (k + 1) * (k + 1) > n

(***************************************************************************)
(* The spectrum the fits run on: data.w, ascending.                        *)
(***************************************************************************)
DataW == <<10, 20, 30, 40>>

\* the region bounds a peak can carry: a proper region, an inverted one,
\* one with equal bounds, one whose two bounds lie nearest the same sample,
\* and one reaching to the end of the axis
PeakBounds == { <<12, 33>>, <<33, 12>>, <<12, 12>>, <<18, 22>>, <<27, 45>> }

\* peak heights (non-zero; powers of two so that every ratio is an integer)
PeakHeights == {1, -2, -4}

\* twice the exponent "expon": 0, 1/2 (the default) and 1
ExponsTwice == {0, 1, 2}

Peak == [bounds : PeakBounds, height : PeakHeights]

RECURSIVE SeqsUpTo(_, _)
SeqsUpTo(S, n) ==
    IF n = 0 THEN { <<>> }
    ELSE LET shorter == SeqsUpTo(S, n - 1)
         IN  shorter \cup { Append(s, x) : s \in { t \in shorter : Len(t) = n - 1 }, x \in S }


(***************************************************************************)
(* Parameter and bounds vectors: [theta, r, y_offset, then one             *)
(* (width, loc, area) triple per peak].                                    *)
(***************************************************************************)
\* position i (1-based) holds a width: Python indices 3, 6, 9, ...
IsWidthPos(i) == i >= 4 /\ (i - 4) % 3 = 0

\* a lower-bounds vector of the given length whose width slots hold
\* widthLow, shaped like the one of Data.generate_initial_conditions
LowerVec(len, widthLow) ==
    [i \in 1..len |->
        IF i = 1 THEN -1
        ELSE IF i = 2 THEN 0
        ELSE IF i = 3 THEN -1
        ELSE IF IsWidthPos(i) THEN widthLow
        ELSE IF (i - 4) % 3 = 1 THEN 20
        ELSE (i - 3) \div 3]

\* the matching upper-bounds vector: every slot two above its lower bound
UpperVec(len, widthLow) == [i \in 1..len |-> LowerVec(len, widthLow)[i] + 2]

\* the lengths tried for a fit with n peaks: the right one, one triple too
\* many, one element short, and one triple short
LenChoices(n) == { 3 + 3 * n, 6 + 3 * n, 2 + 3 * n, 3 * n }

WidthLows == {-1, 0, 1}

(***************************************************************************)
(* FitUtility._compute_weights                                             *)
(***************************************************************************)
\* np.argmin(np.abs(w - b)): the first index at which |w - b| is smallest
RECURSIVE argminScan(_, _, _, _)
argminScan(w, b, i, best) ==
    IF i > Len(w) THEN best
    ELSE argminScan(w, b, i + 1,
                    IF Abs(w[i] - b) < Abs(w[best] - b) THEN i ELSE best)

argmin_abs(w, b) == argminScan(w, b, 2, 1)

\* variant: lIdx and rIdx are used as found, never swapped
IdxPair_unswapped(w, p) ==
    <<argmin_abs(w, p.bounds[1]), argmin_abs(w, p.bounds[2])>>

\* lIdx[i], rIdx[i] of one peak, swapped when inverted
IdxPair(w, p) ==
    LET l == argmin_abs(w, p.bounds[1])
        r == argmin_abs(w, p.bounds[2])
    IN  IF l > r THEN <<r, l>> ELSE <<l, r>>

\* maxabs[i] = np.abs(p.height)
maxabs(pks) == [i \in 1..Len(pks) |-> Abs(pks[i].height)]

\* np.amax of a non-empty array
amax(s) == CHOOSE m \in { s[i] : i \in 1..Len(s) } : \A i \in 1..Len(s) : s[i] <= m

\* np.power(biggest / maxabs[i], expon), with expon given as twice its value
power(biggest, h, e2) ==
    LET ratio == biggest \div h
    IN  IF e2 = 0 THEN 1
        ELSE IF e2 % 2 = 0 THEN IntPow(ratio, e2 \div 2)
        ELSE ISqrt(ratio) * IntPow(ratio, e2 \div 2)

\* the value of the default weight 0.1, in tenths
defaultweight == 1

\* variant: the slice stops one short, weights[l : r] = val
AssignRange_exclusive(wts, l, r, val) ==
    [i \in 1..Len(wts) |-> IF l <= i /\ i < r THEN val ELSE wts[i]]

\* weights[l : r + 1] = val
AssignRange(wts, l, r, val) ==
    [i \in 1..Len(wts) |-> IF l <= i /\ i <= r THEN val ELSE wts[i]]

\* the loop "for i in range(len(self.data.peaks))", peak i onwards
RECURSIVE assignPeaks(_, _, _, _, _)
assignPeaks(wts, w, pks, e2, i) ==
    IF i > Len(pks) THEN wts
    ELSE LET lr == IdxPair(w, pks[i])
             val == 10 * power(amax(maxabs(pks)), maxabs(pks)[i], e2)
         IN  assignPeaks(AssignRange(wts, lr[1], lr[2], val), w, pks, e2, i + 1)

\* the weight array before smoothing, in tenths
weights_before_smoothing(w, pks, e2) ==
    assignPeaks([i \in 1..Len(w) |-> defaultweight], w, pks, e2, 1)

\* the number of relaxation passes of laplace1d
LaplaceIters == 10

\* one pass of laplace1d with mixing factor 1/3: every interior value x
\* becomes (2/3) x + (1/3) (left + right) / 2 = (4 x + left + right) / 6,
\* the endpoints stay; the result is in units six times finer
laplaceStep(x) ==
    [i \in 1..Len(x) |->
        IF i = 1 \/ i = Len(x) THEN 6 * x[i]
        ELSE 4 * x[i] + x[i - 1] + x[i + 1]]

RECURSIVE laplace1d(_, _)
laplace1d(x, n) == IF n = 0 THEN x ELSE laplace1d(laplaceStep(x), n - 1)

\* the denominator of the smoothed weights
WeightDen == 10 * IntPow(6, LaplaceIters)

\* np.amax raises ValueError on the empty array
compute_weights_raises(pks) == Len(pks) = 0

compute_weights(w, pks, e2) ==
    laplace1d(weights_before_smoothing(w, pks, e2), LaplaceIters)

\* the inputs whose weights the exact arithmetic of the model can hold:
\* every power is an integer and small enough to be smoothed in 32 bits
Representable(pks, e2) ==
    \A i \in 1..Len(pks) :
        LET b == amax(maxabs(pks))
            h == maxabs(pks)[i]
            ratio == b \div h
        IN  /\ ratio * h = b
            /\ (e2 % 2 = 1 => ISqrt(ratio) * ISqrt(ratio) = ratio)
            /\ power(b, h, e2) <= 3

(***************************************************************************)
(* FitUtility._calculate_area_fraction                                     *)
(***************************************************************************)
\* range(start, stop, 3) of Python indices, as 1-based positions
RECURSIVE range3(_, _)
range3(start, stop) ==
    IF start >= stop THEN <<>> ELSE <<start + 1>> \o range3(start + 3, stop)

\* variant: the triples are read at their location slot, range(4, ...)
areas_of_locations(params) ==
    LET idx == range3(4, Len(params))
    IN  [k \in 1..Len(idx) |-> params[idx[k]]]

\* areas = [params[i] for i in range(5, len(params), 3)]
areas_of(params) ==
    LET idx == range3(5, Len(params))
    IN  [k \in 1..Len(idx) |-> params[idx[k]]]

\* areas[areas >= m].sum() with m = np.mean(areas) = sum / n
sum_major(areas) ==
    SumSeq([k \in 1..Len(areas) |->
              IF areas[k] * Len(areas) >= SumSeq(areas) THEN areas[k] ELSE 0])

\* areas[areas < m].sum()
sum_minor(areas) ==
    SumSeq([k \in 1..Len(areas) |->
              IF areas[k] * Len(areas) < SumSeq(areas) THEN areas[k] ELSE 0])

\* sats / (peaks + sats), as the rational <<numerator, denominator>>
calculate_area_fraction(params) ==
    LET areas == areas_of(params)
        pk == sum_major(areas)
        sats == sum_minor(areas)
    IN  <<sats, pk + sats>>


(***************************************************************************)
(* The optimizer call of FitUtility.fit.                                   *)
(***************************************************************************)
\* the objective unpacks x[:3] and then reads x[i], x[i + 1], x[i + 2] for
\* i in range(0, len(x) - 3, 3): a vector that does not consist of three
\* globals and complete triples makes it raise
objective_raises(x) == Len(x) < 3 \/ (Len(x) - 3) % 3 # 0

\* pyswarm.pso asserts len(lb) == len(ub) and np.all(ub > lb) on entry
pso_asserts(lb, ub) ==
    \/ Len(lb) # Len(ub)
    \/ \E i \in 1..Len(lb) : ~(ub[i] > lb[i])

\* the particles the swarm evaluates lie between the bounds: the model
\* takes the lower corner and the midpoint of the box
Candidates(lb, ub) ==
    { lb, [i \in 1..Len(lb) |-> (lb[i] + ub[i]) \div 2] }

\* the values the optimizer may report as the objective of its best particle
ErrorVals == {0, 7}

NoResult == [set |-> FALSE, params |-> <<>>, error |-> 0, area_fraction |-> <<0, 1>>]

(***************************************************************************)
(* FitUtility: the constructor has stored its arguments (pc = "init") and  *)
(* calls fit().                                                            *)
(***************************************************************************)
FitInit ==
    /\ pc = "init"
    /\ peaks \in SeqsUpTo(Peak, MaxPeaks)
    /\ expon \in ExponsTwice
    /\ Representable(peaks, expon)
    /\ \E len \in LenChoices(Len(peaks)), extra \in {0, 1}, wl \in WidthLows :
          /\ lower = LowerVec(len, wl)
          /\ upper = UpperVec(len + extra, wl)
    /\ rawWeights = <<>>
    /\ weights = <<>>
    /\ psoCalls = 0
    /\ evaluated = {}
    /\ result = NoResult

\* fit(): self.weights = self._compute_weights()
ComputeWeights ==
    /\ pc = "init"
    /\ ~compute_weights_raises(peaks)
    /\ rawWeights' = weights_before_smoothing(DataW, peaks, expon)
    /\ weights' = compute_weights(DataW, peaks, expon)
    /\ pc' = "weighted"
    /\ UNCHANGED <<peaks, lower, upper, expon, psoCalls, evaluated, result,
                   notFitVars>>

\* fit(): _compute_weights raises (np.amax of an empty array)
ComputeWeightsRaises ==
    /\ pc = "init"
    /\ compute_weights_raises(peaks)
    /\ pc' = "error"
    /\ UNCHANGED <<peaks, lower, upper, expon, rawWeights, weights, psoCalls,
                   evaluated, result, notFitVars>>

\* fit(): pyswarm.pso is called and rejects its bounds
PsoRejects ==
    /\ pc = "weighted"
    /\ pso_asserts(lower, upper)
    /\ psoCalls' = psoCalls + 1
    /\ pc' = "error"
    /\ UNCHANGED <<peaks, lower, upper, expon, rawWeights, weights, evaluated, result,
                   notFitVars>>

\* fit(): pyswarm.pso is called and the objective raises on the first particle
PsoObjectiveRaises ==
    /\ pc = "weighted"
    /\ ~pso_asserts(lower, upper)
    /\ objective_raises(lower)
    /\ psoCalls' = psoCalls + 1
    /\ evaluated' = {lower}
    /\ pc' = "error"
    /\ UNCHANGED <<peaks, lower, upper, expon, rawWeights, weights, result,
                   notFitVars>>

\* fit(): pyswarm.pso runs and returns its best particle; params, error and
\* area_fraction are stored in the result object
PsoReturns ==
    /\ pc = "weighted"
    /\ ~pso_asserts(lower, upper)
    /\ ~objective_raises(lower)
    /\ psoCalls' = psoCalls + 1
    /\ evaluated' = Candidates(lower, upper)
    /\ \E xopt \in Candidates(lower, upper), fopt \in ErrorVals :
          result' = [set |-> TRUE, params |-> xopt, error |-> fopt,
                     area_fraction |-> calculate_area_fraction(xopt)]
    /\ pc' = "done"
    /\ UNCHANGED <<peaks, lower, upper, expon, rawWeights, weights,
                   notFitVars>>

FitNext ==
    \/ ComputeWeights
    \/ ComputeWeightsRaises
    \/ PsoRejects
    \/ PsoObjectiveRaises
    \/ PsoReturns

(***************************************************************************)
(* Angles.  A phase angle theta is one of the entries of Angles, an angle  *)
(* whose cosine c/d and sine s/d are rational (c*c + s*s = d*d); a         *)
(* parameter vector holds the position of its angle in Angles.             *)
(***************************************************************************)
Angles == << [c |-> 1, s |-> 0, d |-> 1],     \* 0
             [c |-> 0, s |-> 1, d |-> 1],     \* pi/2
             [c |-> 3, s |-> 4, d |-> 5],     \* atan(4/3)
             [c |-> -4, s |-> -3, d |-> 5] >> \* atan(3/4) - pi

cos(theta) == <<Angles[theta].c, Angles[theta].d>>
sin(theta) == <<Angles[theta].s, Angles[theta].d>>

(***************************************************************************)
(* objective(x0, w, u, v, kk, weights, fitIm)                              *)
(*                                                                         *)
(* The line shapes are transcendental in (x, r, sigma, mu).  The model     *)
(* takes them sampled on w: for the k-th triple of x0, line[k].L holds     *)
(* r * L + (1 - r) * G at every sample and line[k].K the Kramers-Kronig    *)
(* integral per unit area, so that voigt_1D is yOff + a * L and kk is      *)
(* a * K.  Any (r, sigma, mu) is some choice of these samples.             *)
(***************************************************************************)
\* V = yOff + a * (r * L + (1 - r) * G)
voigt_1D(ln, yOff, a) == [i \in 1..Len(ln.L) |-> yOff + a * ln.L[i]]

\* the integrand is (V2 - V1) / x, in which yOff cancels and a is a factor
kk(ln, a) == [i \in 1..Len(ln.K) |-> a * ln.K[i]]

\* V_data = u * np.cos(theta) - v * np.sin(theta)
V_data_of(u, v, theta) ==
    [i \in 1..Len(u) |->
        RSub(RMul(RInt(u[i]), cos(theta)), RMul(RInt(v[i]), sin(theta)))]

\* I_data = u * np.sin(theta) + v * np.cos(theta)
I_data_of(u, v, theta) ==
    [i \in 1..Len(u) |->
        RAdd(RMul(RInt(u[i]), sin(theta)), RMul(RInt(v[i]), cos(theta)))]

\* the loop over the triples of x0[3:], from triple k on: fit = fit + curve
RECURSIVE V_fit_from(_, _, _, _)
V_fit_from(fit, x0, line, k) ==
    IF 3 * k + 3 > Len(x0) THEN fit
    ELSE LET curve == voigt_1D(line[k], x0[3], x0[3 * k + 3])
         IN  V_fit_from([i \in 1..Len(fit) |-> fit[i] + curve[i]], x0, line, k + 1)

RECURSIVE I_fit_from(_, _, _, _)
I_fit_from(fit, x0, line, k) ==
    IF 3 * k + 3 > Len(x0) THEN fit
    ELSE LET curve == kk(line[k], x0[3 * k + 3])
         IN  I_fit_from([i \in 1..Len(fit) |-> fit[i] + curve[i]], x0, line, k + 1)

\* variant: the differences are not squared
square_diff_unsquared(data, fit) ==
    [i \in 1..Len(data) |-> RSub(data[i], RInt(fit[i]))]

\* np.square(data - fit)
square_diff(data, fit) ==
    [i \in 1..Len(data) |->
        RMul(RSub(data[i], RInt(fit[i])), RSub(data[i], RInt(fit[i])))]

\* variant: the last sample is left out of the sum
residual_unweighted_short(data, fit) ==
    RSum(SubSeq(square_diff(data, fit), 1, Len(data) - 1))

\* np.square(data - fit).sum(): the residual when weights is None
residual_unweighted(data, fit) == RSum(square_diff(data, fit))

\* variant: samples on a bound are taken in
where_inside_closed(w, bounds) ==
    { i \in 1..Len(w) : w[i] >= bounds[1] /\ w[i] <= bounds[2] }

\* idx = np.where((w > bounds[0]) & (w < bounds[1]))
where_inside(w, bounds) == { i \in 1..Len(w) : w[i] > bounds[1] /\ w[i] < bounds[2] }

\* what one entry q = (bounds, weight) of the weight list adds
entry_residual(q, w, data, fit) ==
    LET sq == square_diff(data, fit)
        idx == IF q.all THEN 1..Len(w) ELSE where_inside(w, q.bounds)
    IN  RMul(RSum([i \in 1..Len(sq) |-> IF i \in idx THEN sq[i] ELSE RInt(0)]),
             RInt(q.weight))

\* the loop "for q in weights", from entry j on
RECURSIVE residual_weighted(_, _, _, _, _, _)
residual_weighted(acc, entries, j, w, data, fit) ==
    IF j > Len(entries) THEN acc
    ELSE residual_weighted(RAdd(acc, entry_residual(entries[j], w, data, fit)),
                           entries, j + 1, w, data, fit)

\* V_residual (and I_residual) for either kind of weights argument
residual(wts, w, data, fit) ==
    IF wts.none THEN residual_unweighted(data, fit)
    ELSE residual_weighted(RInt(0), wts.entries, 1, w, data, fit)

\* variant: the sum of the two residuals is not halved
combine_sum(V_residual, I_residual, fitIm) ==
    IF fitIm THEN RAdd(V_residual, I_residual) ELSE V_residual

\* the value returned: (V_residual + I_residual) / 2.0 or V_residual
combine(V_residual, I_residual, fitIm) ==
    IF fitIm THEN RHalf(RAdd(V_residual, I_residual)) ELSE V_residual

objective(x0, w, u, v, line, wts, fitIm) ==
    IF objective_raises(x0) THEN [tag |-> "raise", val |-> RInt(0)]
    ELSE LET theta == x0[1]
             zeros == [i \in 1..Len(w) |-> 0]
             V_data == V_data_of(u, v, theta)
             V_fit == V_fit_from(zeros, x0, line, 1)
             V_residual == residual(wts, w, V_data, V_fit)
             I_residual == residual(wts, w, I_data_of(u, v, theta),
                                    I_fit_from(zeros, x0, line, 1))
         IN  [tag |-> "ok", val |-> combine(V_residual, I_residual, fitIm)]

(***************************************************************************)
(* The inputs of the objective.                                            *)
(***************************************************************************)
ObjW == <<10, 20, 30>>

ObjData == { [u |-> <<1, 0, -1>>, v |-> <<0, 2, 1>>],
             [u |-> <<2, 1, 0>>, v |-> <<-1, 0, 3>>] }

\* a peak of the parameter vector together with its sampled line shape
PeakModels ==
    { [sigma |-> 2, mu |-> 20, a |-> 1, L |-> <<0, 1, 0>>, K |-> <<1, 0, -1>>],
      [sigma |-> 1, mu |-> 10, a |-> -2, L |-> <<2, 1, 0>>, K |-> <<0, -1, 1>>] }

YOffs == {0, 1}

RECURSIVE Flatten(_)
Flatten(pm) ==
    IF pm = <<>> THEN <<>>
    ELSE <<pm[1].sigma, pm[1].mu, pm[1].a>> \o Flatten(Tail(pm))

\* the entries a weight list is made of: 'all' or a pair of bounds, and a weight
Entries ==
    { [all |-> TRUE, bounds |-> <<0, 0>>, weight |-> k] : k \in {-1, 1} }
    \cup { [all |-> FALSE, bounds |-> b, weight |-> k] :
             b \in { <<10, 30>>, <<5, 25>> }, k \in {-1, 2} }

WeightArgs ==
    { [none |-> TRUE, entries |-> <<>>] }
    \cup { [none |-> FALSE, entries |-> e] : e \in SeqsUpTo(Entries, MaxEntries) }

ObjIdle ==
    /\ o_pc = "idle"
    /\ o_x0 = <<>>
    /\ o_u = <<>>
    /\ o_v = <<>>
    /\ o_line = <<>>
    /\ o_weights = [none |-> TRUE, entries |-> <<>>]
    /\ o_fitIm = FALSE
    /\ o_out = [tag |-> "none", val |-> RInt(0)]

ObjInit ==
    /\ o_pc = "ready"
    /\ \E pm \in SeqsUpTo(PeakModels, MaxObjPeaks), theta \in 1..Len(Angles),
          yOff \in YOffs, cut \in {0, 1} :
          /\ cut <= Len(pm)
          /\ o_x0 = LET full == <<theta, 1, yOff>> \o Flatten(pm)
                    IN  SubSeq(full, 1, Len(full) - cut)
          /\ o_line = [k \in 1..Len(pm) |-> [L |-> pm[k].L, K |-> pm[k].K]]
    /\ \E d \in ObjData : o_u = d.u /\ o_v = d.v
    /\ o_weights \in WeightArgs
    /\ o_fitIm \in BOOLEAN
    /\ o_out = [tag |-> "none", val |-> RInt(0)]

\* one evaluation of the objective
ObjCall ==
    /\ o_pc = "ready"
    /\ o_out' = objective(o_x0, ObjW, o_u, o_v, o_line, o_weights, o_fitIm)
    /\ o_pc' = "called"
    /\ UNCHANGED <<o_x0, o_u, o_v, o_line, o_weights, o_fitIm,
                   notObjVars>>

FitIdle ==
    /\ pc = "idle"
    /\ peaks = <<>>
    /\ lower = <<>>
    /\ upper = <<>>
    /\ expon = 1
    /\ rawWeights = <<>>
    /\ weights = <<>>
    /\ psoCalls = 0
    /\ evaluated = {}
    /\ result = NoResult

(***************************************************************************)
(* Data.approximate_area_fraction: the same split on the peaks' own areas. *)
(***************************************************************************)
approximate_area_fraction(areas) ==
    LET pk == sum_major(areas)
        sats == sum_minor(areas)
    IN  <<sats, pk + sats>>

\* the areas a peak can have
AreaVals == {0, 1, 10}

\* a parameter vector with the given areas: widths 3 and locations 21, 22, ...
ParamsWithAreas(areas) ==
    [i \in 1..(3 + 3 * Len(areas)) |->
        IF i <= 3 THEN i - 2
        ELSE IF (i - 4) % 3 = 0 THEN 3
        ELSE IF (i - 4) % 3 = 1 THEN 20 + (i - 2) \div 3
        ELSE areas[(i - 3) \div 3]]

AreaIdle ==
    /\ a_pc = "idle"
    /\ a_params = <<>>
    /\ a_areas = <<>>
    /\ a_fraction = <<0, 1>>
    /\ a_approx = <<0, 1>>

AreaInit ==
    /\ a_pc = "ready"
    /\ a_areas \in SeqsUpTo(AreaVals, MaxAreaPeaks)
    /\ a_params = ParamsWithAreas(a_areas)
    /\ a_fraction = <<0, 1>>
    /\ a_approx = <<0, 1>>

\* the area fraction of the fit and the one of the data
AreaCall ==
    /\ a_pc = "ready"
    /\ a_fraction' = calculate_area_fraction(a_params)
    /\ a_approx' = approximate_area_fraction(a_areas)
    /\ a_pc' = "called"
    /\ UNCHANGED <<a_params, a_areas, notAreaVars>>

(***************************************************************************)
(* The phase transform: shift_phase, and the rotation back that            *)
(* generate_result applies to the fitted curves.                           *)
(***************************************************************************)
\* V = u * cos(theta) - v * sin(theta); I = u * sin(theta) + v * cos(theta)
shift_phase(u, v, theta) ==
    [V |-> [i \in 1..Len(u) |-> RSub(RMul(u[i], cos(theta)), RMul(v[i], sin(theta)))],
     I |-> [i \in 1..Len(u) |-> RAdd(RMul(u[i], sin(theta)), RMul(v[i], cos(theta)))]]

\* variant: the rotation is applied a second time instead of being undone
inverse_phase_forward(V, I, theta) ==
    [u |-> [i \in 1..Len(V) |-> RSub(RMul(V[i], cos(theta)), RMul(I[i], sin(theta)))],
     v |-> [i \in 1..Len(V) |-> RAdd(RMul(V[i], sin(theta)), RMul(I[i], cos(theta)))]]

\* u_fit = V * cos(theta) + I * sin(theta); v_fit = -V * sin(theta) + I * cos(theta)
inverse_phase(V, I, theta) ==
    [u |-> [i \in 1..Len(V) |-> RAdd(RMul(V[i], cos(theta)), RMul(I[i], sin(theta)))],
     v |-> [i \in 1..Len(V) |->
              RAdd(RMul(RMul(RInt(-1), V[i]), sin(theta)), RMul(I[i], cos(theta)))]]

PhaseVals == -2..2

\* the non-empty arrays of rationals <<x, 1>> up to the length bound
PhaseArrays(n) == { [i \in 1..n |-> RInt(s[i])] : s \in [1..n -> PhaseVals] }

PhaseIdle ==
    /\ p_pc = "idle"
    /\ p_u = <<>>
    /\ p_v = <<>>
    /\ p_theta = 1
    /\ p_V = <<>>
    /\ p_I = <<>>
    /\ p_u2 = <<>>
    /\ p_v2 = <<>>

PhaseInit ==
    /\ p_pc = "ready"
    /\ \E n \in 1..MaxPhaseLen : p_u \in PhaseArrays(n) /\ p_v \in PhaseArrays(n)
    /\ p_theta \in 1..Len(Angles)
    /\ p_V = <<>>
    /\ p_I = <<>>
    /\ p_u2 = <<>>
    /\ p_v2 = <<>>

\* the forward transform
ShiftPhase ==
    /\ p_pc = "ready"
    /\ p_V' = shift_phase(p_u, p_v, p_theta).V
    /\ p_I' = shift_phase(p_u, p_v, p_theta).I
    /\ p_pc' = "shifted"
    /\ UNCHANGED <<p_u, p_v, p_theta, p_u2, p_v2, notPhaseVars>>

\* the inverse transform, with the same angle
RestorePhase ==
    /\ p_pc = "shifted"
    /\ p_u2' = inverse_phase(p_V, p_I, p_theta).u
    /\ p_v2' = inverse_phase(p_V, p_I, p_theta).v
    /\ p_pc' = "restored"
    /\ UNCHANGED <<p_u, p_v, p_theta, p_V, p_I, notPhaseVars>>

(***************************************************************************)
(* Data.brute_phase: the scan of theta over np.arange(-pi, pi, step).      *)
(* Angles are counted in twelfths of a full turn (pi is 6, -pi is -6).     *)
(* ps2 is a table from the scanned angle to the V it produces.             *)
(***************************************************************************)
\* np.pi
Pi == 6

\* np.inf as the initial bestError: no squared difference is negative
inf == -1

\* len(np.arange(start, stop, step)) = ceil((stop - start) / step)
arange_len(start, stop, step) == (stop - start + step - 1) \div step

\* np.arange(start, stop, step)
arange(start, stop, step) ==
    [k \in 1..arange_len(start, stop, step) |-> start + (k - 1) * step]

\* error = (self.V[0] - self.V[-1])**2
first_last_error(V) == (V[1] - V[Len(V)]) * (V[1] - V[Len(V)])

\* variant: a tie replaces the best angle found so far
improves_or_ties(error, bestError) == bestError = inf \/ error <= bestError

\* if error < bestError
improves(error, bestError) == bestError = inf \/ error < bestError

\* the steps whose scan has at most MaxScan angles
ScanSteps == { s \in 1..(2 * Pi) : arange_len(-Pi, Pi, s) <= MaxScan }

\* the V arrays ps2 can produce
ScanVs == { <<0, 0>>, <<1, 0>>, <<0, 2>>, <<2, 0>> }

BruteIdle ==
    /\ b_pc = "idle"
    /\ b_step = 2 * Pi
    /\ b_ps2 = <<>>
    /\ b_k = 0
    /\ b_bestTheta = 0
    /\ b_bestError = inf
    /\ b_V = <<>>
    /\ b_p0 = 0
    /\ b_ret = 0

\* bestTheta = 0; bestError = np.inf
BruteInit ==
    /\ b_pc = "scan"
    /\ b_step \in ScanSteps
    /\ b_ps2 \in [1..arange_len(-Pi, Pi, b_step) -> ScanVs]
    /\ b_k = 0
    /\ b_bestTheta = 0
    /\ b_bestError = inf
    /\ b_V = <<>>
    /\ b_p0 = 0
    /\ b_ret = 0

\* one iteration of the loop over the scan
BruteScan ==
    /\ b_pc = "scan"
    /\ b_k < arange_len(-Pi, Pi, b_step)
    /\ LET theta == arange(-Pi, Pi, b_step)[b_k + 1]
           V == b_ps2[b_k + 1]
           error == first_last_error(V)
       IN  /\ b_V' = V
           /\ IF improves(error, b_bestError)
              THEN b_bestError' = error /\ b_bestTheta' = theta
              ELSE UNCHANGED <<b_bestError, b_bestTheta>>
    /\ b_k' = b_k + 1
    /\ UNCHANGED <<b_pc, b_step, b_ps2, b_p0, b_ret, notBruteVars>>

\* after the loop: self.V of the best angle, self.p0 = bestTheta, return
BruteReturn ==
    /\ b_pc = "scan"
    /\ b_k = arange_len(-Pi, Pi, b_step)
    /\ b_V' = b_ps2[CHOOSE k \in 1..b_k : arange(-Pi, Pi, b_step)[k] = b_bestTheta]
    /\ b_p0' = b_bestTheta
    /\ b_ret' = b_bestTheta
    /\ b_pc' = "done"
    /\ UNCHANGED <<b_step, b_ps2, b_k, b_bestTheta, b_bestError, notBruteVars>>

(***************************************************************************)
(* run_fit of benchmark.py: a Powell fit, then a TNC fit seeded from it.   *)
(* Each fit is a FitUtility of NMRfit.py, whose constructor calls fit().   *)
(***************************************************************************)
NoBounds == [none |-> TRUE, lower |-> <<>>, upper |-> <<>>]

\* a value kept inside [lo, hi]
clip(x, lo, hi) == IF x < lo THEN lo ELSE IF x > hi THEN hi ELSE x

\* the vectors sp.optimize.minimize may return from x0: x0 itself, x0 with
\* every entry moved, x0 with the peak entries moved; inside the bounds when
\* the method is given bounds
minimize_outputs(x0, bounds) ==
    LET moved == { x0,
                   [i \in 1..Len(x0) |-> x0[i] + 1],
                   [i \in 1..Len(x0) |-> IF i > 3 THEN x0[i] + 1 ELSE x0[i]] }
    IN  IF bounds.none THEN moved
        ELSE { [i \in 1..Len(x0) |-> clip(x[i], bounds.lower[i], bounds.upper[i])] :
                 x \in moved }

\* variant: the seed is stored as the result instead of the minimizer's output
stored_seed(result_x, x0) == x0

\* self.result.params = result.x
stored_params(result_x, x0) == result_x

\* FitUtility(data, x0, method, bounds): a new Result object, one call of the
\* minimizer, its x and fun stored in the Result object
FitUtilityCall(method, bounds) ==
    \E x \in minimize_outputs(s_x0, bounds), fun \in ErrorVals :
        /\ s_calls' = Append(s_calls, [method |-> method, x0 |-> s_x0,
                                       bounds |-> bounds, x |-> x, fun |-> fun])
        /\ s_heap' = Append(s_heap, [set |-> TRUE, params |-> stored_params(x, s_x0),
                                     error |-> fun, area_fraction |-> <<0, 1>>])
        /\ s_fit' = Len(s_heap) + 1

\* fit.generate_result(scale=1): area_fraction is stored, self.result returned
GenerateResultCall ==
    /\ s_heap' = [s_heap EXCEPT ![s_fit].area_fraction =
                                    calculate_area_fraction(s_heap[s_fit].params)]
    /\ s_res' = s_fit

\* c: 8 columns and three per peak for six peaks
RowColumns == 8 + 3 * 6

\* x0[1:3] = res.params[1:3]
seed_globals(x0, params) ==
    [i \in 1..Len(x0) |-> IF i \in {2, 3} /\ i <= Len(params) THEN params[i] ELSE x0[i]]

StageIdle ==
    /\ s_pc = "idle"
    /\ s_x0 = <<>>
    /\ s_bounds = NoBounds
    /\ s_heap = <<>>
    /\ s_fit = 0
    /\ s_res = 0
    /\ s_calls = <<>>
    /\ s_row = <<>>

\* x0, bounds = data.generate_initial_conditions()
StageInit ==
    /\ s_pc = "start"
    /\ \E n \in 1..MaxStagePeaks, up \in {0, 1} :
          /\ s_x0 = [i \in 1..(3 + 3 * n) |-> LowerVec(3 + 3 * n, 1)[i] + up]
          /\ s_bounds = [none |-> FALSE, lower |-> LowerVec(3 + 3 * n, 1),
                         upper |-> UpperVec(3 + 3 * n, 1)]
    /\ s_heap = <<>>
    /\ s_fit = 0
    /\ s_res = 0
    /\ s_calls = <<>>
    /\ s_row = <<>>

\* fit = nmrft.FitUtility(data, x0, method='Powell')
FirstFit ==
    /\ s_pc = "start"
    /\ FitUtilityCall("Powell", NoBounds)
    /\ s_pc' = "fit1"
    /\ UNCHANGED <<s_x0, s_bounds, s_res, s_row, notStageVars>>

\* res = fit.generate_result(scale=1)
FirstResult ==
    /\ s_pc = "fit1"
    /\ GenerateResultCall
    /\ s_pc' = "res1"
    /\ UNCHANGED <<s_x0, s_bounds, s_fit, s_calls, s_row, notStageVars>>

\* x0[1:3] = res.params[1:3]
SeedGlobals ==
    /\ s_pc = "res1"
    /\ s_x0' = seed_globals(s_x0, s_heap[s_res].params)
    /\ s_pc' = "seeded"
    /\ UNCHANGED <<s_bounds, s_heap, s_fit, s_res, s_calls, s_row, notStageVars>>

\* fit = nmrft.FitUtility(data, x0, method='TNC', bounds=bounds, ...)
SecondFit ==
    /\ s_pc = "seeded"
    /\ FitUtilityCall("TNC", s_bounds)
    /\ s_pc' = "fit2"
    /\ UNCHANGED <<s_x0, s_bounds, s_res, s_row, notStageVars>>

\* res = fit.generate_result(scale=1)
SecondResult ==
    /\ s_pc = "fit2"
    /\ GenerateResultCall
    /\ s_pc' = "res2"
    /\ UNCHANGED <<s_x0, s_bounds, s_fit, s_calls, s_row, notStageVars>>

\* row = [ID, sample, 'TNC', res.error, res.area_fraction], then the
\* parameters if they fill the columns, 'NA' otherwise
BuildRow ==
    /\ s_pc = "res2"
    /\ LET r == s_heap[s_res]
       IN  s_row' = [method |-> "TNC", error |-> r.error,
                     area_fraction |-> r.area_fraction,
                     params |-> IF 5 + Len(r.params) = RowColumns
                                THEN r.params
                                ELSE [i \in 1..(RowColumns - 5) |-> "NA"]]
    /\ s_pc' = "done"
    /\ UNCHANGED <<s_x0, s_bounds, s_heap, s_fit, s_res, s_calls, notStageVars>>

(***************************************************************************)
(* FitUtility.fit of core.py with pyswarm.pso unfolded: the initial        *)
(* evaluation of the swarm, then one evaluation and one update per         *)
(* iteration.  With processes > 1 the particles of an iteration are        *)
(* evaluated by mp_pool.map, which returns when every value is back;       *)
(* otherwise they are evaluated in a loop, in order.  A position is one    *)
(* number, the objective a table over the positions, and the random moves  *)
(* of the particles are any positions inside the bounds.                   *)
(***************************************************************************)
Particles == 1..SwarmSize

\* the positions between the lower and the upper bound
Positions == 0..2

\* the values the objective can take
ObjValues == {0, 1, 3}

\* minfunc and minstep of pyswarm.pso, which fit() leaves at their defaults
minfunc == 1
minstep == 1

\* a < b for values that may be np.inf
less(a, b) == a # inf /\ (b = inf \/ a < b)

\* variant: the map returns before every value is back
map_returned_early(pending) == TRUE

\* mp_pool.map(obj, x) has returned: every particle's value is back
map_returned(pending) == pending = {}

\* variant: the objective is called without the weights
pso_args_unweighted(wts) == [weights |-> 0]

\* args=(self.data.w, self.data.u, self.data.v, self.weights, self.fit_im)
pso_args(wts) == [weights |-> wts]

\* variant: the iteration counter does not advance
next_it_stuck(it) == it

\* it += 1
next_it(it) == it + 1

\* while it <= maxiter
budget_left(it) == it <= MaxIter

\* np.argmin(fp): the first particle whose fp is smallest
argmin_fp(fp) ==
    CHOOSE i \in Particles :
        /\ \A j \in Particles : ~less(fp[j], fp[i])
        /\ \A j \in Particles : j < i => less(fp[i], fp[j])

\* i_update = fx < fp; p[i_update] = x[i_update]; fp[i_update] = fx[i_update]
updated_p(x, fx, p, fp) ==
    [i \in Particles |-> IF less(fx[i].val, fp[i]) THEN x[i] ELSE p[i]]

updated_fp(fx, fp) ==
    [i \in Particles |-> IF less(fx[i].val, fp[i]) THEN fx[i].val ELSE fp[i]]

PsoIdle ==
    /\ w_pc = "idle"
    /\ w_f = <<>>
    /\ w_processes = 0
    /\ w_built = 0
    /\ w_weights = 0
    /\ w_it = 0
    /\ w_x = <<>>
    /\ w_fx = <<>>
    /\ w_pending = {}
    /\ w_p = <<>>
    /\ w_fp = <<>>
    /\ w_g = 0
    /\ w_fg = inf
    /\ w_used = {}
    /\ w_low = inf
    /\ w_stop = "none"
    /\ w_result = NoResult

\* the constructor has stored its arguments and calls fit()
PsoInit ==
    /\ w_pc = "init"
    /\ w_f \in [Positions -> ObjValues]
    /\ w_processes \in {1, 2}
    /\ w_built = 0
    /\ w_weights = 0
    /\ w_it = 0
    /\ w_x = [i \in Particles |-> 0]
    /\ w_fx = [i \in Particles |-> [val |-> inf, it |-> -1]]
    /\ w_pending = {}
    /\ w_p = [i \in Particles |-> 0]
    /\ w_fp = [i \in Particles |-> inf]
    /\ w_g = 0
    /\ w_fg = inf
    /\ w_used = {}
    /\ w_low = inf
    /\ w_stop = "none"
    /\ w_result = NoResult

\* self.weights = self._compute_weights()
PsoComputeWeights ==
    /\ w_pc = "init"
    /\ w_built' = w_built + 1
    /\ w_weights' = w_built + 1
    /\ w_pc' = "ready"
    /\ UNCHANGED <<w_f, w_processes, w_it, w_x, w_fx, w_pending, w_p, w_fp, w_g, w_fg,
                   w_used, w_low, w_stop, w_result, notPsoVars>>

\* pyswarm.pso is called: the particles get their initial positions and are
\* handed over for the initial evaluation
PsoBegin ==
    /\ w_pc = "ready"
    /\ w_x' \in [Particles -> Positions]
    /\ w_pending' = Particles
    /\ w_pc' = "map"
    /\ UNCHANGED <<w_f, w_processes, w_built, w_weights, w_it, w_fx, w_p, w_fp, w_g,
                   w_fg, w_used, w_low, w_stop, w_result, notPsoVars>>

\* one evaluation obj(x[i]) comes back: from any worker of the pool when
\* processes > 1, from the loop over the particles otherwise
PsoWorker(i) ==
    /\ w_pc = "map"
    /\ i \in w_pending
    /\ w_processes > 1 \/ \A j \in w_pending : i <= j
    /\ w_fx' = [w_fx EXCEPT ![i] = [val |-> w_f[w_x[i]], it |-> w_it]]
    /\ w_pending' = w_pending \ {i}
    /\ w_used' = w_used \cup {pso_args(w_weights).weights}
    /\ w_low' = IF less(w_f[w_x[i]], w_low) THEN w_f[w_x[i]] ELSE w_low
    /\ UNCHANGED <<w_pc, w_f, w_processes, w_built, w_weights, w_it, w_x, w_p, w_fp,
                   w_g, w_fg, w_stop, w_result, notPsoVars>>

\* pso returns xopt, fopt; fit() stores them in the result object
PsoReturn(xopt, fopt, why) ==
    /\ w_result' = [set |-> TRUE, params |-> xopt, error |-> fopt,
                    area_fraction |-> <<0, 1>>]
    /\ w_stop' = why
    /\ w_pc' = "done"
    /\ UNCHANGED <<w_x, w_pending>>

\* the loop test, then either the move of the particles of the next
\* iteration and their hand-over, or the return at the end of the budget
PsoLoop(it, g, fg) ==
    /\ w_it' = it
    /\ w_g' = g
    /\ w_fg' = fg
    /\ IF budget_left(it)
       THEN /\ w_x' \in [Particles -> Positions]
            /\ w_pending' = Particles
            /\ UNCHANGED <<w_pc, w_stop, w_result>>
       ELSE PsoReturn(g, fg, "maxiter")

\* the values are in: personal bests, swarm best, stopping tests
PsoUpdate ==
    /\ w_pc = "map"
    /\ map_returned(w_pending)
    /\ LET p == updated_p(w_x, w_fx, w_p, w_fp)
           fp == updated_fp(w_fx, w_fp)
           i_min == argmin_fp(fp)
       IN  /\ w_p' = p
           /\ w_fp' = fp
           /\ IF w_it = 0
              THEN IF less(fp[i_min], w_fg)
                   THEN PsoLoop(1, p[i_min], fp[i_min])
                   ELSE PsoLoop(1, w_x[1], w_fg)
              ELSE IF less(fp[i_min], w_fg)
                   THEN IF w_fg # inf /\ w_fg - fp[i_min] <= minfunc
                        THEN /\ PsoReturn(p[i_min], fp[i_min], "minfunc")
                             /\ UNCHANGED <<w_it, w_g, w_fg>>
                        ELSE IF Abs(w_g - p[i_min]) <= minstep
                        THEN /\ PsoReturn(p[i_min], fp[i_min], "minstep")
                             /\ UNCHANGED <<w_it, w_g, w_fg>>
                        ELSE PsoLoop(next_it(w_it), p[i_min], fp[i_min])
                   ELSE PsoLoop(next_it(w_it), w_g, w_fg)
    /\ UNCHANGED <<w_f, w_processes, w_built, w_weights, w_fx, w_used, w_low,
                   notPsoVars>>

(***************************************************************************)
(* The objective statement by statement, on arrays held in memory.  Two    *)
(* evaluations run at the same time on the same w, u, v and weights, each  *)
(* on its own parameter vector, as two particles of the swarm do.  An      *)
(* address is a position in m_heap.                                        *)
(***************************************************************************)
Evaluations == {1, 2}

\* the arrays the caller passes in: w, u, v, weights, and one parameter
\* vector per evaluation
AddrW == 1
AddrU == 2
AddrV == 3
AddrWeights == 4
AddrX0(e) == 4 + e
Shared == 1..6

\* variant: the result of an array expression overwrites its first operand
bind_in_place(heap, e, operand, val) ==
    [heap |-> [heap EXCEPT ![operand].val = val], addr |-> operand]

\* an array expression (u * c - v * s, fit + curve, np.zeros_like) makes a
\* new array, to which the name on the left is bound
bind_result(heap, e, operand, val) ==
    [heap |-> Append(heap, [val |-> val, by |-> e]), addr |-> Len(heap) + 1]

NoEnv == [V_data |-> 0, V_fit |-> 0, I_data |-> 0, I_fit |-> 0]

\* the parameter vectors an evaluation can be given
EvalX0s ==
    { [x0 |-> <<3, 1, 1>> \o Flatten(pm),
       line |-> [k \in 1..Len(pm) |-> [L |-> pm[k].L, K |-> pm[k].K]]] :
         pm \in SeqsUpTo(PeakModels, MaxObjPeaks) \ { <<>> } }

EvalWeights ==
    { [none |-> TRUE, entries |-> <<>>],
      [none |-> FALSE,
       entries |-> << [all |-> FALSE, bounds |-> <<5, 25>>, weight |-> 2],
                      [all |-> TRUE, bounds |-> <<0, 0>>, weight |-> 1] >>] }

MemIdle ==
    /\ m_heap = <<>>
    /\ m_pc = [e \in Evaluations |-> "idle"]
    /\ m_x0 = [e \in Evaluations |-> 0]
    /\ m_line = [e \in Evaluations |-> <<>>]
    /\ m_env = [e \in Evaluations |-> NoEnv]
    /\ m_k = [e \in Evaluations |-> 0]
    /\ m_fitIm = FALSE
    /\ m_out = [e \in Evaluations |-> RInt(0)]

MemInit ==
    /\ \E d \in ObjData, wts \in EvalWeights, a \in EvalX0s, b \in EvalX0s :
          /\ m_heap = << [val |-> ObjW, by |-> 0], [val |-> d.u, by |-> 0],
                         [val |-> d.v, by |-> 0], [val |-> wts, by |-> 0],
                         [val |-> a.x0, by |-> 0], [val |-> b.x0, by |-> 0] >>
          /\ m_line = [e \in Evaluations |-> IF e = 1 THEN a.line ELSE b.line]
    /\ m_pc = [e \in Evaluations |-> "start"]
    /\ m_x0 = [e \in Evaluations |-> AddrX0(e)]
    /\ m_env = [e \in Evaluations |-> NoEnv]
    /\ m_k = [e \in Evaluations |-> 0]
    /\ m_fitIm \in BOOLEAN
    /\ m_out = [e \in Evaluations |-> RInt(0)]

\* theta, r, yOff = x0[:3]; V_data = ...; V_fit = np.zeros_like(V_data);
\* with fitIm also I_data and I_fit
EvalData(e) ==
    /\ m_pc[e] = "start"
    /\ LET theta == m_heap[m_x0[e]].val[1]
           u == m_heap[AddrU].val
           v == m_heap[AddrV].val
           zeros == [i \in 1..Len(u) |-> 0]
           h1 == bind_result(m_heap, e, AddrU, V_data_of(u, v, theta))
           h2 == bind_result(h1.heap, e, h1.addr, zeros)
           h3 == bind_result(h2.heap, e, AddrU, I_data_of(u, v, theta))
           h4 == bind_result(h3.heap, e, h1.addr, zeros)
       IN  IF m_fitIm
           THEN /\ m_heap' = h4.heap
                /\ m_env' = [m_env EXCEPT ![e] = [V_data |-> h1.addr, V_fit |-> h2.addr,
                                                 I_data |-> h3.addr, I_fit |-> h4.addr]]
           ELSE /\ m_heap' = h2.heap
                /\ m_env' = [m_env EXCEPT ![e] = [V_data |-> h1.addr, V_fit |-> h2.addr,
                                                 I_data |-> 0, I_fit |-> 0]]
    /\ m_k' = [m_k EXCEPT ![e] = 1]
    /\ m_pc' = [m_pc EXCEPT ![e] = "peaks"]
    /\ UNCHANGED <<m_x0, m_line, m_fitIm, m_out, notMemVars>>

\* one pass of the loop: V_fit = V_fit + voigt_1D(...); with fitIm also
\* I_fit = I_fit + kk(...)
EvalPeak(e) ==
    /\ m_pc[e] = "peaks"
    /\ 3 * m_k[e] + 3 <= Len(m_heap[m_x0[e]].val)
    /\ LET x0 == m_heap[m_x0[e]].val
           k == m_k[e]
           V_fit == m_heap[m_env[e].V_fit].val
           curve == voigt_1D(m_line[e][k], x0[3], x0[3 * k + 3])
           h1 == bind_result(m_heap, e, m_env[e].V_fit,
                             [i \in 1..Len(V_fit) |-> V_fit[i] + curve[i]])
           I_fit == h1.heap[m_env[e].I_fit].val
           icurve == kk(m_line[e][k], x0[3 * k + 3])
           h2 == bind_result(h1.heap, e, m_env[e].I_fit,
                             [i \in 1..Len(I_fit) |-> I_fit[i] + icurve[i]])
       IN  IF m_fitIm
           THEN /\ m_heap' = h2.heap
                /\ m_env' = [m_env EXCEPT ![e].V_fit = h1.addr, ![e].I_fit = h2.addr]
           ELSE /\ m_heap' = h1.heap
                /\ m_env' = [m_env EXCEPT ![e].V_fit = h1.addr]
    /\ m_k' = [m_k EXCEPT ![e] = m_k[e] + 1]
    /\ UNCHANGED <<m_pc, m_x0, m_line, m_fitIm, m_out, notMemVars>>

\* after the loop: the residuals and the return
EvalReturn(e) ==
    /\ m_pc[e] = "peaks"
    /\ 3 * m_k[e] + 3 > Len(m_heap[m_x0[e]].val)
    /\ LET w == m_heap[AddrW].val
           wts == m_heap[AddrWeights].val
           V_residual == residual(wts, w, m_heap[m_env[e].V_data].val,
                                  m_heap[m_env[e].V_fit].val)
           I_residual == IF m_fitIm
                         THEN residual(wts, w, m_heap[m_env[e].I_data].val,
                                       m_heap[m_env[e].I_fit].val)
                         ELSE RInt(0)
       IN  m_out' = [m_out EXCEPT ![e] = combine(V_residual, I_residual, m_fitIm)]
    /\ m_pc' = [m_pc EXCEPT ![e] = "done"]
    /\ UNCHANGED <<m_heap, m_x0, m_line, m_env, m_k, m_fitIm, notMemVars>>

(***************************************************************************)
(* FitUtility.fit and FitUtility.generate_result called in any order on    *)
(* one data object (generate_result with scale = 1, the frequency axis of  *)
(* the data).                                                              *)
(***************************************************************************)
Unset == <<>>

NoCurves ==
    [set |-> FALSE, params |-> <<>>, line |-> <<>>, error |-> 0,
     w |-> Unset, u |-> Unset, v |-> Unset, V |-> Unset, I |-> Unset]

\* what a fit can converge to: a parameter vector and its sampled line shapes
DerivParams ==
    { [x0 |-> <<theta, 1, 1>> \o Flatten(pm),
       line |-> [k \in 1..Len(pm) |-> [L |-> pm[k].L, K |-> pm[k].K]]] :
         theta \in {1, 3}, pm \in SeqsUpTo(PeakModels, MaxObjPeaks) \ { <<>> } }

\* the peaks of the data: bounds and height
DerivPeaks == << [bounds |-> <<12, 33>>, height |-> 1] >>

DerivIdle ==
    /\ d_data = [w |-> Unset, u |-> Unset, v |-> Unset, V |-> Unset, I |-> Unset,
                 peaks |-> <<>>]
    /\ d_result = NoCurves
    /\ d_calls = 0

\* a data object as loaded: V and I not yet set, or set by Data.shift_phase
DerivInit ==
    /\ \E d \in ObjData, phased \in BOOLEAN :
          d_data = [w |-> ObjW, u |-> d.u, v |-> d.v,
                    V |-> IF phased THEN V_data_of(d.u, d.v, 2) ELSE Unset,
                    I |-> IF phased THEN I_data_of(d.u, d.v, 2) ELSE Unset,
                    peaks |-> DerivPeaks]
    /\ d_result = NoCurves
    /\ d_calls = 0

\* fit(): params and error of the optimizer are stored in the result object
DerivFit ==
    /\ d_calls < MaxCalls
    /\ \E c \in DerivParams, fopt \in ErrorVals :
          d_result' = [d_result EXCEPT !.set = TRUE, !.params = c.x0, !.line = c.line,
                                       !.error = fopt]
    /\ d_calls' = d_calls + 1
    /\ UNCHANGED <<d_data, notDerivVars>>

\* generate_result(scale=1)
DerivGenerateResult ==
    /\ d_calls < MaxCalls
    /\ d_result.set
    /\ LET w == d_data.w
           zeros == [i \in 1..Len(w) |-> 0]
           params == d_result.params
           theta == params[1]
           V_data == V_data_of(d_data.u, d_data.v, theta)
           I_data == I_data_of(d_data.u, d_data.v, theta)
           V_fit == V_fit_from(zeros, params, d_result.line, 1)
           I_fit == I_fit_from(zeros, params, d_result.line, 1)
           back == inverse_phase([i \in 1..Len(w) |-> RInt(V_fit[i])],
                                 [i \in 1..Len(w) |-> RInt(I_fit[i])], theta)
       IN  /\ d_result' = [d_result EXCEPT !.u = back.u, !.v = back.v, !.V = V_fit,
                                           !.I = I_fit, !.w = w]
           /\ d_data' = [d_data EXCEPT !.V = V_data, !.I = I_data]
    /\ d_calls' = d_calls + 1
    /\ UNCHANGED notDerivVars

(***************************************************************************)
(* Data.select_bounds and BoundsSelector.apply_bounds.  The arrays live in *)
(* c_heap; an object holds the addresses of its arrays.                    *)
(***************************************************************************)
NoArrays == [w |-> 0, u |-> 0, v |-> 0]

\* the values low, high and the two clicks are drawn from
CropValues == {5, 15, 20, 35, 45}

CropData == { [u |-> <<1, 5, 2, 0>>, v |-> <<0, -1, 3, 1>>],
              [u |-> <<0, 2, 7, 1>>, v |-> <<2, 0, -2, 0>>] }

\* variant: the samples on a bound are kept
crop_idx_closed(w, low, high) == { i \in 1..Len(w) : w[i] >= low /\ w[i] <= high }

\* idx = np.where((self.w > low) & (self.w < high))
crop_idx(w, low, high) == { i \in 1..Len(w) : w[i] > low /\ w[i] < high }

\* a[idx]: a new array of the selected entries, in order
RECURSIVE take(_, _, _)
take(a, idx, i) ==
    IF i > Len(a) THEN <<>>
    ELSE IF i \in idx THEN <<a[i]>> \o take(a, idx, i + 1)
    ELSE take(a, idx, i + 1)

CropIdle ==
    /\ c_pc = "idle"
    /\ c_heap = <<>>
    /\ c_data = NoArrays
    /\ c_bs = NoArrays
    /\ c_args = [given |-> FALSE, low |-> 0, high |-> 0, clicks |-> <<>>]
    /\ c_ret = NoArrays
    /\ c_applied = <<>>

\* data.select_bounds(low, high) or data.select_bounds() is called
CropInit ==
    /\ c_pc = "call"
    /\ \E d \in CropData : c_heap = <<DataW, d.u, d.v>>
    /\ c_data = [w |-> 1, u |-> 2, v |-> 3]
    /\ c_bs = NoArrays
    /\ \E a \in CropValues, b \in CropValues, given \in BOOLEAN :
          c_args = IF given
                   THEN [given |-> TRUE, low |-> a, high |-> b, clicks |-> <<>>]
                   ELSE [given |-> FALSE, low |-> 0, high |-> 0, clicks |-> <<a, b>>]
    /\ c_ret = NoArrays
    /\ c_applied = <<>>

\* bs = BoundsSelector(self.w, self.u, self.v, ...)
CropSelector ==
    /\ c_pc = "call"
    /\ c_bs' = c_data
    /\ c_pc' = "selector"
    /\ UNCHANGED <<c_heap, c_data, c_args, c_ret, c_applied, notCropVars>>

\* bs.apply_bounds(low, high): the selector's arrays are replaced by their
\* entries strictly inside (low, high), and returned
CropApply ==
    /\ c_pc = "selector"
    /\ LET supress == c_args.given
           low == IF supress THEN c_args.low ELSE Min2(c_args.clicks[1], c_args.clicks[2])
           high == IF supress THEN c_args.high ELSE Max2(c_args.clicks[1], c_args.clicks[2])
           idx == crop_idx(c_heap[c_bs.w], low, high)
           n == Len(c_heap)
       IN  /\ c_heap' = c_heap \o << take(c_heap[c_bs.u], idx, 1),
                                     take(c_heap[c_bs.v], idx, 1),
                                     take(c_heap[c_bs.w], idx, 1) >>
           /\ c_bs' = [u |-> n + 1, v |-> n + 2, w |-> n + 3]
           /\ c_ret' = [u |-> n + 1, v |-> n + 2, w |-> n + 3]
    /\ c_pc' = "applied"
    /\ UNCHANGED <<c_data, c_args, c_applied, notCropVars>>

\* self.w, self.u, self.v = bs.apply_bounds(...)
CropAssign ==
    /\ c_pc = "applied"
    /\ c_data' = c_ret
    /\ c_applied' =
          Append(c_applied,
                 IF c_args.given
                 THEN [low |-> c_args.low, high |-> c_args.high, given |-> TRUE,
                       data |-> c_ret]
                 ELSE [low |-> Min2(c_args.clicks[1], c_args.clicks[2]),
                       high |-> Max2(c_args.clicks[1], c_args.clicks[2]),
                       given |-> FALSE, data |-> c_ret])
    /\ c_pc' = "done"
    /\ UNCHANGED <<c_heap, c_bs, c_args, c_ret, notCropVars>>

\* data.select_bounds(low, high) is called on the same object once more
CropAgain ==
    /\ c_pc = "done"
    /\ Len(c_applied) < MaxCrops
    /\ \E a \in CropValues, b \in CropValues :
          c_args' = [given |-> TRUE, low |-> a, high |-> b, clicks |-> <<>>]
    /\ c_pc' = "call"
    /\ UNCHANGED <<c_heap, c_data, c_bs, c_ret, c_applied, notCropVars>>

(***************************************************************************)
(* The layout of the vectors: Data.generate_initial_conditions builds the  *)
(* bounds, the objective and generate_result read a vector.  Values are    *)
(* in hundredths.  Positions are counted from 1: x0[0] is position 1.      *)
(***************************************************************************)
\* the peaks a selector can hand over: two with positive width and area and
\* their location inside their bounds, one whose integrated area is
\* negative, one whose location lies outside its bounds
LayoutPeaks ==
    { [width |-> 2, loc |-> 20, bounds |-> <<12, 33>>, area |-> 10],
      [width |-> 1, loc |-> 30, bounds |-> <<27, 45>>, area |-> 1],
      [width |-> 2, loc |-> 20, bounds |-> <<12, 33>>, area |-> -10],
      [width |-> 1, loc |-> 25, bounds |-> <<27, 45>>, area |-> 1] }

\* variant: the area slot of a peak is left out
peak_lower_pair(p) ==
    << 50 * p.width, 100 * p.loc - 10 * (p.loc - p.bounds[1]) >>

\* [p.width * 0.5, p.loc - 0.1 * (p.loc - p.bounds[0]), p.area * 0.5]
peak_lower(p) ==
    << 50 * p.width, 100 * p.loc - 10 * (p.loc - p.bounds[1]), 50 * p.area >>

\* [p.width * 1.5, p.loc - 0.1 * (p.loc - p.bounds[1]), p.area * 1.5]
peak_upper(p) ==
    << 150 * p.width, 100 * p.loc - 10 * (p.loc - p.bounds[2]), 150 * p.area >>

\* lower = [self.p0 - 0.01, 0.0, -0.01], then lower.extend(...) per peak
RECURSIVE initial_lower(_, _)
initial_lower(p0, pks) ==
    IF pks = <<>> THEN << p0 - 1, 0, -1 >>
    ELSE initial_lower(p0, SubSeq(pks, 1, Len(pks) - 1)) \o peak_lower(pks[Len(pks)])

\* upper = [self.p0 + 0.01, 1.0, 0.01], then upper.extend(...) per peak
RECURSIVE initial_upper(_, _)
initial_upper(p0, pks) ==
    IF pks = <<>> THEN << p0 + 1, 100, 1 >>
    ELSE initial_upper(p0, SubSeq(pks, 1, Len(pks) - 1)) \o peak_upper(pks[Len(pks)])

NoRead == [read |-> {}, raised |-> FALSE, triples |-> 0]

\* for i in range(0, len(res), 3): res[i], res[i + 1], res[i + 2], with
\* res = x[3:] of length n; reading past the end raises IndexError
RECURSIVE read_triples(_, _, _)
read_triples(n, i, acc) ==
    IF i >= n THEN acc
    ELSE IF i + 1 >= n
         THEN [acc EXCEPT !.read = @ \cup {3 + i + 1}, !.raised = TRUE]
    ELSE IF i + 2 >= n
         THEN [acc EXCEPT !.read = @ \cup {3 + i + 1, 3 + i + 2}, !.raised = TRUE]
    ELSE read_triples(n, i + 3,
                      [acc EXCEPT !.read = @ \cup {3 + i + 1, 3 + i + 2, 3 + i + 3},
                                  !.triples = @ + 1])

\* theta, r, yOff = x[:3] (raises when x has fewer than three entries),
\* then the loop over x[3:]
vector_reads(x) ==
    IF Len(x) < 3 THEN [read |-> 1..Len(x), raised |-> TRUE, triples |-> 0]
    ELSE read_triples(Len(x) - 3, 0, [read |-> {1, 2, 3}, raised |-> FALSE, triples |-> 0])

LayoutIdle ==
    /\ l_pc = "idle"
    /\ l_peaks = <<>>
    /\ l_p0 = 0
    /\ l_lower = <<>>
    /\ l_upper = <<>>
    /\ l_x = <<>>
    /\ l_objRead = NoRead
    /\ l_resRead = NoRead

LayoutInit ==
    /\ l_pc = "data"
    /\ l_peaks \in SeqsUpTo(LayoutPeaks, MaxLayoutPeaks)
    /\ l_p0 \in {0, 100}
    /\ l_lower = <<>>
    /\ l_upper = <<>>
    /\ l_x = <<>>
    /\ l_objRead = NoRead
    /\ l_resRead = NoRead

\* lower, upper = data.generate_initial_conditions()
GenerateInitialConditions ==
    /\ l_pc = "data"
    /\ l_lower' = initial_lower(l_p0, l_peaks)
    /\ l_upper' = initial_upper(l_p0, l_peaks)
    /\ l_pc' = "bounds"
    /\ UNCHANGED <<l_peaks, l_p0, l_x, l_objRead, l_resRead, notLayoutVars>>

\* the objective is evaluated on a vector: one of the bounds, or a vector
\* the caller cut short by one or two entries
LayoutObjective ==
    /\ l_pc = "bounds"
    /\ \E v \in {l_lower, l_upper}, cut \in 0..2 :
          /\ l_x' = SubSeq(v, 1, Len(v) - cut)
          /\ l_objRead' = vector_reads(SubSeq(v, 1, Len(v) - cut))
    /\ l_pc' = "evaluated"
    /\ UNCHANGED <<l_peaks, l_p0, l_lower, l_upper, l_resRead, notLayoutVars>>

\* generate_result on the vector the objective accepted
LayoutGenerateResult ==
    /\ l_pc = "evaluated"
    /\ ~l_objRead.raised
    /\ l_resRead' = vector_reads(l_x)
    /\ l_pc' = "derived"
    /\ UNCHANGED <<l_peaks, l_p0, l_lower, l_upper, l_x, l_objRead, notLayoutVars>>

(***************************************************************************)
(* Fits run one after another in one process: FitUtility of core.py with   *)
(* pyswarm.pso, FitUtility of NMRfit.py with scipy.optimize.minimize.      *)
(* Positions are single numbers, the objective is a table over them.  The  *)
(* generator behind np.random is a deterministic machine whose state the   *)
(* process keeps between calls; no fit seeds it.                           *)
(***************************************************************************)
RngPeriod == 5

\* the number the generator delivers in a state, scaled to lb + x * (ub - lb)
rng_out(state) == state % 3

\* the state after a number was drawn
rng_next(state) == (state + 1) % RngPeriod

\* the states the generator is in while n numbers are drawn one by one
RECURSIVE rng_states(_, _)
rng_states(state, n) ==
    IF n = 0 THEN <<>> ELSE <<state>> \o rng_states(rng_next(state), n - 1)

\* the objectives: the spectrum, the peaks and the options make one table
RepeatObjectives ==
    << [x \in Positions |-> IF x = 0 THEN 3 ELSE IF x = 1 THEN 1 ELSE 0],
       [x \in Positions |-> IF x = 1 THEN 0 ELSE 3],
       [x \in Positions |-> 1] >>

\* the inputs of a fit: the objective and the seed x0 (minimize only)
RepeatInputs == { [f |-> k, x0 |-> x] : k \in DOMAIN RepeatObjectives, x \in {0, 2} }

\* x = lb + np.random.rand(S, D) * (ub - lb): the positions of the swarm
swarm_positions(state) ==
    [i \in Particles |-> rng_out(rng_states(state, SwarmSize)[i])]

\* the best of the positions the swarm was given, the first one on a tie
pso_best(f, x) ==
    CHOOSE i \in Particles :
        /\ \A j \in Particles : f[x[j]] >= f[x[i]]
        /\ \A j \in Particles : j < i => f[x[j]] > f[x[i]]

\* sp.optimize.minimize from x0: steps to a lower neighbour while there is one
RECURSIVE minimize(_, _)
minimize(f, x) ==
    IF x - 1 \in Positions /\ f[x - 1] < f[x] THEN minimize(f, x - 1)
    ELSE IF x + 1 \in Positions /\ f[x + 1] < f[x] THEN minimize(f, x + 1)
    ELSE x

RepeatIdle ==
    /\ r_rng = 0
    /\ r_log = <<>>

\* a process after import: the generator was seeded from the clock or the
\* operating system
RepeatInit ==
    /\ r_rng \in 0..(RngPeriod - 1)
    /\ r_log = <<>>

\* FitUtility(data, lower, upper) of core.py: pyswarm.pso draws the swarm
\* from np.random, the result is stored
RepeatPso ==
    /\ Len(r_log) < MaxFits
    /\ \E inp \in { i \in RepeatInputs : i.x0 = 0 } :
          LET f == RepeatObjectives[inp.f]
              x == swarm_positions(r_rng)
              g == x[pso_best(f, x)]
          IN  r_log' = Append(r_log, [stage |-> "pso", inputs |-> inp,
                                      params |-> g, error |-> f[g]])
    /\ r_rng' = rng_states(r_rng, SwarmSize + 1)[SwarmSize + 1]
    /\ UNCHANGED notRepeatVars

\* FitUtility(data, x0, method, bounds) of NMRfit.py: no random numbers
RepeatMinimize ==
    /\ Len(r_log) < MaxFits
    /\ \E inp \in RepeatInputs :
          LET f == RepeatObjectives[inp.f]
              x == minimize(f, inp.x0)
          IN  r_log' = Append(r_log, [stage |-> "minimize", inputs |-> inp,
                                      params |-> x, error |-> f[x]])
    /\ UNCHANGED <<r_rng, notRepeatVars>>

(***************************************************************************)
(* One FitUtility object from its construction on: made by the class       *)
(* (core.py) or by the function fit of _core.py, then used through         *)
(* generate_result, summary and _calculate_area_fraction.  The curves of   *)
(* generate_result are kept as the parameter vector they were built from.  *)
(***************************************************************************)
\* the parameter vectors an optimizer run can return, or a caller can hold
UseParams == { <<0, 1, 0, 1, 20, 2>>, <<1, 1, 0, 2, 21, 3>>, <<1, 0, 0, 1, 22, 2>> }

\* self.result = containers.Result(): no attribute is set
EmptyResult == [set |-> FALSE, params |-> <<>>, error |-> 0, curves |-> <<>>]

\* what a method call found: params, error and the optimizer runs so far
found(res, calls) == [params |-> res.params, error |-> res.error, calls |-> calls]

NoMethod == [op |-> "none", before |-> found(EmptyResult, 0), raised |-> FALSE]

\* xopt, fopt = pyswarm.pso(...); self.result.params = xopt;
\* self.result.error = fopt
fit_stores(res, xopt, fopt) ==
    [res EXCEPT !.set = TRUE, !.params = xopt, !.error = fopt]

UseIdle ==
    /\ f_pc = "idle"
    /\ f_via = "none"
    /\ f_given = <<>>
    /\ f_result = EmptyResult
    /\ f_optCalls = 0
    /\ f_last = NoMethod
    /\ f_ops = 0

\* no object yet; the caller holds data, bounds and a parameter vector
UseInit ==
    /\ f_pc = "none"
    /\ f_via = "none"
    /\ f_given \in UseParams
    /\ f_result = EmptyResult
    /\ f_optCalls = 0
    /\ f_last = NoMethod
    /\ f_ops = 0

\* FitUtility(data, lower, upper): __init__ up to the call of self.fit()
UseConstructor ==
    /\ f_pc = "none"
    /\ f_via' = "class"
    /\ f_result' = EmptyResult
    /\ f_pc' = "init"
    /\ UNCHANGED <<f_given, f_optCalls, f_last, f_ops, notUseVars>>

\* fit(data, lower, upper) of _core.py: f = _utility.FitUtility(...), its
\* __init__ up to the call of self.fit()
UseEntryConstructor ==
    /\ f_pc = "none"
    /\ f_via' = "entry"
    /\ f_result' = EmptyResult
    /\ f_pc' = "init"
    /\ UNCHANGED <<f_given, f_optCalls, f_last, f_ops, notUseVars>>

\* self.fit() at the end of __init__: the optimizer runs, params and error
\* are stored, the constructor returns
UseConstructorFit ==
    /\ f_pc = "init"
    /\ \E xopt \in UseParams, fopt \in ErrorVals :
          f_result' = fit_stores(f_result, xopt, fopt)
    /\ f_optCalls' = f_optCalls + 1
    /\ f_pc' = IF f_via = "entry" THEN "entry" ELSE "ready"
    /\ UNCHANGED <<f_via, f_given, f_last, f_ops, notUseVars>>

\* f.fit(); return f
UseEntryFit ==
    /\ f_pc = "entry"
    /\ \E xopt \in UseParams, fopt \in ErrorVals :
          f_result' = fit_stores(f_result, xopt, fopt)
    /\ f_optCalls' = f_optCalls + 1
    /\ f_pc' = "ready"
    /\ UNCHANGED <<f_via, f_given, f_last, f_ops, notUseVars>>

\* f.result.params = params by the caller: Result is a plain container
UseAssignParams ==
    /\ f_pc = "ready"
    /\ f_ops < MaxCalls
    /\ f_result' = [f_result EXCEPT !.set = TRUE, !.params = f_given]
    /\ f_last' = [op |-> "assign", before |-> found(f_result, f_optCalls),
                  raised |-> FALSE]
    /\ f_ops' = f_ops + 1
    /\ UNCHANGED <<f_pc, f_via, f_given, f_optCalls, notUseVars>>

\* f.generate_result(): reads self.result.params, stores the curves
UseGenerateResult ==
    /\ f_pc = "ready"
    /\ f_ops < MaxCalls
    /\ f_result' = IF f_result.set THEN [f_result EXCEPT !.curves = f_result.params]
                   ELSE f_result
    /\ f_last' = [op |-> "generate_result", before |-> found(f_result, f_optCalls),
                  raised |-> ~f_result.set]
    /\ f_ops' = f_ops + 1
    /\ UNCHANGED <<f_pc, f_via, f_given, f_optCalls, notUseVars>>

\* f.summary(plot=False): _print_summary reads self.result.params
UseSummary ==
    /\ f_pc = "ready"
    /\ f_ops < MaxCalls
    /\ f_last' = [op |-> "summary", before |-> found(f_result, f_optCalls),
                  raised |-> ~f_result.set]
    /\ f_ops' = f_ops + 1
    /\ UNCHANGED <<f_pc, f_via, f_given, f_result, f_optCalls, notUseVars>>

\* f._calculate_area_fraction(): reads self.result.params
UseAreaFraction ==
    /\ f_pc = "ready"
    /\ f_ops < MaxCalls
    /\ f_last' = [op |-> "_calculate_area_fraction",
                  before |-> found(f_result, f_optCalls), raised |-> ~f_result.set]
    /\ f_ops' = f_ops + 1
    /\ UNCHANGED <<f_pc, f_via, f_given, f_result, f_optCalls, notUseVars>>

(***************************************************************************)
(* FitUtility._calculate_area_fraction in floating point.  A number is an  *)
(* integer count of the smallest unit in use; it is a floating-point       *)
(* number when it has at most MantissaBits significant bits.  Every sum    *)
(* and the division of np.mean round to the nearest such number, ties to   *)
(* the even mantissa, as IEEE 754 arithmetic does with 53 bits.            *)
(***************************************************************************)
MantissaBits == 5

\* the number of bits of n: 0 for 0, k when 2^(k-1) <= n < 2^k
RECURSIVE bit_length(_)
bit_length(n) == IF n = 0 THEN 0 ELSE 1 + bit_length(n \div 2)

\* the spacing of the floating-point numbers around n
ulp(n) ==
    IF bit_length(n) <= MantissaBits THEN 1
    ELSE IntPow(2, bit_length(n) - MantissaBits)

\* num / den rounded to the nearest floating-point number, ties to even
fl(num, den) ==
    LET q == num \div den
        u == ulp(q)
        lo == (q \div u) * u
        hi == lo + u
        twice == 2 * (num - lo * den)
    IN  IF twice < u * den THEN lo
        ELSE IF twice > u * den THEN hi
        ELSE IF (lo \div u) % 2 = 0 THEN lo ELSE hi

\* a.sum(): the entries are added one by one, every sum rounded
RECURSIVE fl_sum(_, _)
fl_sum(a, acc) ==
    IF a = <<>> THEN acc ELSE fl_sum(Tail(a), fl(acc + Head(a), 1))

\* np.mean(areas)
fl_mean(areas) == fl(fl_sum(areas, 0), Len(areas))

\* areas[areas >= m]
RECURSIVE at_least(_, _)
at_least(areas, m) ==
    IF areas = <<>> THEN <<>>
    ELSE IF Head(areas) >= m THEN <<Head(areas)>> \o at_least(Tail(areas), m)
    ELSE at_least(Tail(areas), m)

\* areas[areas < m]
RECURSIVE below(_, _)
below(areas, m) ==
    IF areas = <<>> THEN <<>>
    ELSE IF Head(areas) < m THEN <<Head(areas)>> \o below(Tail(areas), m)
    ELSE below(Tail(areas), m)

\* the areas of the fitted peaks: floating-point numbers of one binade
FloatAreas == {16, 22, 26, 31}

RoundIdle ==
    /\ g_pc = "idle"
    /\ g_areas = <<>>
    /\ g_m = 0
    /\ g_peaks = 0
    /\ g_sats = 0
    /\ g_fraction = <<0, 1>>

\* result.params holds the areas of at least one peak, all positive
RoundInit ==
    /\ g_pc = "ready"
    /\ g_areas \in SeqsUpTo(FloatAreas, MaxFloatPeaks) \ { <<>> }
    /\ g_m = 0
    /\ g_peaks = 0
    /\ g_sats = 0
    /\ g_fraction = <<0, 1>>

\* m = np.mean(areas); peaks = areas[areas >= m].sum();
\* sats = areas[areas < m].sum(); area_fraction = sats / (peaks + sats)
RoundAreaFraction ==
    /\ g_pc = "ready"
    /\ LET m == fl_mean(g_areas)
           pk == fl_sum(at_least(g_areas, m), 0)
           sats == fl_sum(below(g_areas, m), 0)
       IN  /\ g_m' = m
           /\ g_peaks' = pk
           /\ g_sats' = sats
           /\ g_fraction' = <<sats, fl(pk + sats, 1)>>
    /\ g_pc' = "called"
    /\ UNCHANGED <<g_areas, notRoundVars>>

(***************************************************************************)
(* The interactive selectors.  A click event carries event.xdata, a        *)
(* frequency, and event.ydata; events reach a selector while its figure    *)
(* is open.                                                                *)
(***************************************************************************)
\* the frequencies and heights a click on the plot can carry
ClickX == {5, 20, 35, 45}
ClickY == {0, 1}

\* [x1, y1] < [x2, y2] as Python orders lists
list_less(a, b) == a[1] < b[1] \/ (a[1] = b[1] /\ a[2] < b[2])

\* one more entry put in its place in a sorted list
RECURSIVE insert_sorted(_, _)
insert_sorted(s, x) ==
    IF s = <<>> THEN <<x>>
    ELSE IF list_less(x, Head(s)) THEN <<x>> \o s
    ELSE <<Head(s)>> \o insert_sorted(Tail(s), x)

\* variant: the points stay in the order of the clicks
points_as_clicked(points) == points

\* self.points.sort()
RECURSIVE points_sorted(_)
points_sorted(points) ==
    IF points = <<>> THEN <<>>
    ELSE insert_sorted(points_sorted(SubSeq(points, 1, Len(points) - 1)),
                       points[Len(points)])

\* min(self.bounds) and max(self.bounds)
RECURSIVE list_min(_)
list_min(s) == IF Len(s) = 1 THEN s[1] ELSE Min2(s[1], list_min(Tail(s)))

RECURSIVE list_max(_)
list_max(s) == IF Len(s) = 1 THEN s[1] ELSE Max2(s[1], list_max(Tail(s)))

NoCrop == [applied |-> FALSE, low |-> 0, high |-> 0]

NoPeak == [bounds |-> <<0, 0>>, width |-> 0, peakest |-> 0]

\* parse_points: wMin, wMax, self.width, peakest, self.bounds
parse_points(points) ==
    LET sorted == points_sorted(points)
        wMin == sorted[1][1]
        wMax == sorted[3][1]
    IN  [bounds |-> <<wMin, wMax>>, width |-> wMax - wMin, peakest |-> sorted[2][1]]

ClickIdle ==
    /\ k_bsOpen = FALSE
    /\ k_bounds = <<>>
    /\ k_crop = NoCrop
    /\ k_psOpen = FALSE
    /\ k_points = <<>>
    /\ k_parsed = 0
    /\ k_peak = NoPeak
    /\ k_events = <<>>

\* BoundsSelector(w, u, v) and PeakSelector(w, u, v) have shown their figures
ClickInit ==
    /\ k_bsOpen = TRUE
    /\ k_bounds = <<>>
    /\ k_crop = NoCrop
    /\ k_psOpen = TRUE
    /\ k_points = <<>>
    /\ k_parsed = 0
    /\ k_peak = NoPeak
    /\ k_events = <<>>

\* BoundsSelector.__call__(event)
BoundsClick ==
    /\ k_bsOpen
    /\ \E x \in ClickX :
          /\ k_bounds' = Append(k_bounds, x)
          /\ k_bsOpen' = (Len(k_bounds) + 1 # 2)
    /\ UNCHANGED <<k_crop, k_psOpen, k_points, k_parsed, k_peak, k_events, notClickVars>>

\* plt.show() has returned; apply_bounds() without supress
BoundsApply ==
    /\ ~k_bsOpen
    /\ ~k_crop.applied
    /\ k_crop' = [applied |-> TRUE, low |-> list_min(k_bounds), high |-> list_max(k_bounds)]
    /\ UNCHANGED <<k_bsOpen, k_bounds, k_psOpen, k_points, k_parsed, k_peak,
                   k_events, notClickVars>>

\* PeakSelector.__call__(event)
PeakClick ==
    /\ k_psOpen
    /\ \E x \in ClickX, y \in ClickY :
          LET points == Append(k_points, <<x, y>>)
          IN  /\ k_events' = Append(k_events, <<x, y>>)
              /\ k_points' = IF Len(points) = 3 THEN points_sorted(points) ELSE points
              /\ IF Len(points) = 3
                 THEN /\ k_peak' = parse_points(points)
                      /\ k_parsed' = k_parsed + 1
                      /\ k_psOpen' = FALSE
                 ELSE UNCHANGED <<k_peak, k_parsed, k_psOpen>>
    /\ UNCHANGED <<k_bsOpen, k_bounds, k_crop, notClickVars>>

(***************************************************************************)
(* Specifications.                                                         *)
(***************************************************************************)
\* every part but the named one is idle
IdleExcept(part) ==
    /\ IF part = "fit" THEN TRUE ELSE FitIdle
    /\ IF part = "objective" THEN TRUE ELSE ObjIdle
    /\ IF part = "area" THEN TRUE ELSE AreaIdle
    /\ IF part = "phase" THEN TRUE ELSE PhaseIdle
    /\ IF part = "brute_phase" THEN TRUE ELSE BruteIdle
    /\ IF part = "run_fit" THEN TRUE ELSE StageIdle
    /\ IF part = "pso" THEN TRUE ELSE PsoIdle
    /\ IF part = "memory" THEN TRUE ELSE MemIdle
    /\ IF part = "result" THEN TRUE ELSE DerivIdle
    /\ IF part = "select_bounds" THEN TRUE ELSE CropIdle
    /\ IF part = "layout" THEN TRUE ELSE LayoutIdle
    /\ IF part = "repeat" THEN TRUE ELSE RepeatIdle
    /\ IF part = "use" THEN TRUE ELSE UseIdle
    /\ IF part = "rounding" THEN TRUE ELSE RoundIdle
    /\ IF part = "clicks" THEN TRUE ELSE ClickIdle

\* the FitUtility constructor and its fit() call
Init == FitInit /\ IdleExcept("fit")

Next == FitNext

Spec == Init /\ [][Next]_vars

\* one call of the objective function on inputs drawn from bounded sets
ObjNext == ObjCall

InitObj == ObjInit /\ IdleExcept("objective")

SpecObj == InitObj /\ [][ObjNext]_vars

\* the area fraction of a parameter vector and of a list of peak areas
AreaNext == AreaCall

InitArea == AreaInit /\ IdleExcept("area")

SpecArea == InitArea /\ [][AreaNext]_vars

\* the phase transform applied forward and then back
PhaseNext == ShiftPhase \/ RestorePhase

InitPhase == PhaseInit /\ IdleExcept("phase")

SpecPhase == InitPhase /\ [][PhaseNext]_vars

\* one call of Data.brute_phase
BruteNext == BruteScan \/ BruteReturn

InitBrute == BruteInit /\ IdleExcept("brute_phase")

SpecBrute == InitBrute /\ [][BruteNext]_vars

\* run_fit: two fits in a row
StageNext ==
    \/ FirstFit
    \/ FirstResult
    \/ SeedGlobals
    \/ SecondFit
    \/ SecondResult
    \/ BuildRow

InitStage == StageInit /\ IdleExcept("run_fit")

SpecStage == InitStage /\ [][StageNext]_vars

\* one fit of core.py, the swarm unfolded
PsoNext ==
    \/ PsoComputeWeights
    \/ PsoBegin
    \/ \E i \in Particles : PsoWorker(i)
    \/ PsoUpdate

InitPso == PsoInit /\ IdleExcept("pso")

SpecPso == InitPso /\ [][PsoNext]_vars

\* the bounds are built, then a vector is read by the objective and by
\* generate_result
LayoutNext == GenerateInitialConditions \/ LayoutObjective \/ LayoutGenerateResult

InitLayout == LayoutInit /\ IdleExcept("layout")

SpecLayout == InitLayout /\ [][LayoutNext]_vars

\* one call of Data.select_bounds
CropNext == CropSelector \/ CropApply \/ CropAssign \/ CropAgain

InitCrop == CropInit /\ IdleExcept("select_bounds")

SpecCrop == InitCrop /\ [][CropNext]_vars

\* fits and result derivations on one data object
DerivNext == DerivFit \/ DerivGenerateResult

InitDeriv == DerivInit /\ IdleExcept("result")

SpecDeriv == InitDeriv /\ [][DerivNext]_vars

\* two evaluations of the objective, their statements interleaved
MemNext ==
    \E e \in Evaluations :
        \/ EvalData(e)
        \/ EvalPeak(e)
        \/ EvalReturn(e)

InitMem == MemInit /\ IdleExcept("memory")

SpecMem == InitMem /\ [][MemNext]_vars

\* fits of either kind, one after another
RepeatNext == RepeatPso \/ RepeatMinimize

InitRepeat == RepeatInit /\ IdleExcept("repeat")

SpecRepeat == InitRepeat /\ [][RepeatNext]_vars

\* a FitUtility object is made, then used
UseNext ==
    \/ UseConstructor
    \/ UseEntryConstructor
    \/ UseConstructorFit
    \/ UseEntryFit
    \/ UseAssignParams
    \/ UseGenerateResult
    \/ UseSummary
    \/ UseAreaFraction

InitUse == UseInit /\ IdleExcept("use")

SpecUse == InitUse /\ [][UseNext]_vars

\* one call of _calculate_area_fraction in floating point
RoundNext == RoundAreaFraction

InitRound == RoundInit /\ IdleExcept("rounding")

SpecRound == InitRound /\ [][RoundNext]_vars

\* click events on the two selectors
ClickNext == BoundsClick \/ BoundsApply \/ PeakClick

InitClick == ClickInit /\ IdleExcept("clicks")

SpecClick == InitClick /\ [][ClickNext]_vars

\* the same with every step of the fit eventually taken: fit() runs in one
\* thread and every evaluation handed to the pool comes back
SpecPsoFair == SpecPso /\ WF_vars(PsoNext)

(***************************************************************************)
(* Properties.                                                             *)
(***************************************************************************)
\* the sample nearest to b, the first one when two are equally near
NearestIdx(w, b) ==
    CHOOSE i \in 1..Len(w) :
        \A j \in 1..Len(w) :
            \/ Abs(w[i] - b) < Abs(w[j] - b)
            \/ Abs(w[i] - b) = Abs(w[j] - b) /\ i <= j

\* the two bounds of the peak are equal or lie nearest the same sample
ZeroWidth(p) ==
    \/ p.bounds[1] = p.bounds[2]
    \/ NearestIdx(DataW, p.bounds[1]) = NearestIdx(DataW, p.bounds[2])

BadLength == Len(lower) # 3 + 3 * Len(peaks) \/ Len(upper) # 3 + 3 * Len(peaks)

\* C1: a fit whose lower or upper bounds do not have length 3 + 3 * n is
\* rejected before the optimizer is called even once.
C1_BadLengthNeverReachesOptimizer == BadLength => psoCalls = 0

\* C2: every width lower bound that reaches the optimizer is strictly
\* positive, and no candidate with a width <= 0 is ever evaluated.
C2_WidthBoundsPositiveAtOptimizer ==
    /\ psoCalls > 0 => \A i \in 1..Len(lower) : IsWidthPos(i) => lower[i] > 0
    /\ \A x \in evaluated : \A i \in 1..Len(x) : IsWidthPos(i) => x[i] > 0

\* C3: a fit with a peak whose region has zero width is rejected before the
\* optimization begins: the weight builder does not accept the region, and
\* no weights are built from it.
C3_ZeroWidthPeakRejected ==
    (\E k \in 1..Len(peaks) : ZeroWidth(peaks[k]))
        => pc \in {"init", "error"} /\ psoCalls = 0 /\ Len(rawWeights) = 0

RECURSIVE RSumOver(_, _)
RSumOver(S, f) ==
    IF S = {} THEN RInt(0)
    ELSE LET x == CHOOSE y \in S : TRUE
         IN  RAdd(f[x], RSumOver(S \ {x}, f))

RECURSIVE SumOver(_, _)
SumOver(S, f) ==
    IF S = {} THEN 0
    ELSE LET x == CHOOSE y \in S : TRUE
         IN  f[x] + SumOver(S \ {x}, f)

ObjSamples == 1..Len(ObjW)

\* the rotated data and the summed fit curves of the call in the state
ObjVData == V_data_of(o_u, o_v, o_x0[1])
ObjIData == I_data_of(o_u, o_v, o_x0[1])
ObjVFit == V_fit_from([i \in ObjSamples |-> 0], o_x0, o_line, 1)
ObjIFit == I_fit_from([i \in ObjSamples |-> 0], o_x0, o_line, 1)

\* (data - fit)^2 at every sample
SqErr(data, fit) ==
    [i \in ObjSamples |-> LET d == RSub(data[i], RInt(fit[i])) IN RMul(d, d)]

\* the samples an entry covers: all of them, or those strictly inside its bounds
Covers(q, i) == q.all \/ (q.bounds[1] < ObjW[i] /\ ObjW[i] < q.bounds[2])

\* the weight a sample carries: the weights of all entries that cover it, added up
StackedWeight(entries, i) ==
    SumOver({ j \in 1..Len(entries) : Covers(entries[j], i) },
            [j \in 1..Len(entries) |-> entries[j].weight])

\* the residual of one channel: the plain sum of squares for None, else every
\* sample's squared error times its stacked weight
ExpectedResidual(wts, data, fit) ==
    IF wts.none THEN RSumOver(ObjSamples, SqErr(data, fit))
    ELSE RSumOver(ObjSamples,
                  [i \in ObjSamples |->
                      RMul(RInt(StackedWeight(wts.entries, i)), SqErr(data, fit)[i])])

ObjReturned == o_pc = "called" /\ o_out.tag = "ok"

Reverse(s) == [j \in 1..Len(s) |-> s[Len(s) + 1 - j]]

C5_NoneReturnsSumOfSquares ==
    (ObjReturned /\ o_weights.none)
        => REq(o_out.val, RSumOver(ObjSamples, SqErr(ObjVData, ObjVFit)))

\* C5 amended: with weights None the objective returns the sum over all
\* samples of (V_data - V_fit)^2 when imaginary fitting is off, and half the
\* sum of that and of the sum of (I_data - I_fit)^2 when it is on.
C5_NoneReturnsUnweightedResidual ==
    (ObjReturned /\ o_weights.none) =>
        IF o_fitIm
        THEN REq(RAdd(o_out.val, o_out.val),
                 RAdd(RSumOver(ObjSamples, SqErr(ObjVData, ObjVFit)),
                      RSumOver(ObjSamples, SqErr(ObjIData, ObjIFit))))
        ELSE REq(o_out.val, RSumOver(ObjSamples, SqErr(ObjVData, ObjVFit)))

\* an unweighted real-only call on two peaks with a non-zero result
C5_Witness ==
    /\ ObjReturned
    /\ o_weights.none
    /\ ~o_fitIm
    /\ Len(o_x0) = 9
    /\ o_out.val[1] > 0

\* C6: with a weight list the residual is the sum over the entries of
\* weight * (sum of squared differences over the entry's samples), 'all'
\* covering every sample and a pair of bounds the samples strictly inside
\* it; entries add up, so a sample contributes once per entry covering it,
\* and the order of the entries does not matter.
C6_WeightedResidualStacks ==
    (ObjReturned /\ ~o_weights.none) =>
        /\ IF o_fitIm
           THEN REq(RAdd(o_out.val, o_out.val),
                    RAdd(ExpectedResidual(o_weights, ObjVData, ObjVFit),
                         ExpectedResidual(o_weights, ObjIData, ObjIFit)))
           ELSE REq(o_out.val, ExpectedResidual(o_weights, ObjVData, ObjVFit))
        /\ objective(o_x0, ObjW, o_u, o_v, o_line,
                     [none |-> FALSE, entries |-> Reverse(o_weights.entries)],
                     o_fitIm) = o_out

\* an 'all' entry and a bounded entry of different weights over the same
\* samples, real part only
C6_Witness ==
    /\ ObjReturned
    /\ ~o_fitIm
    /\ Len(o_weights.entries) = 2
    /\ o_weights.entries[1] = [all |-> FALSE, bounds |-> <<10, 30>>, weight |-> 2]
    /\ o_weights.entries[2] = [all |-> TRUE, bounds |-> <<0, 0>>, weight |-> 1]
    /\ o_out.val[1] > 0

\* the line shapes of the call with other Kramers-Kronig samples
OtherLines ==
    { [k \in 1..Len(o_line) |-> [L |-> o_line[k].L, K |-> [i \in ObjSamples |-> c]]] :
        c \in {0, 5} }

\* C7: with imaginary fitting on the objective returns
\* (V_residual + I_residual) / 2; with it off it returns V_residual alone,
\* whatever the imaginary fit curve is.
C7_MeanOfRealAndImaginary ==
    ObjReturned =>
        LET Vres == ExpectedResidual(o_weights, ObjVData, ObjVFit)
            Ires == ExpectedResidual(o_weights, ObjIData, ObjIFit)
        IN  IF o_fitIm
            THEN REq(o_out.val, <<Vres[1] * Ires[2] + Ires[1] * Vres[2],
                                  2 * Vres[2] * Ires[2]>>)
            ELSE /\ REq(o_out.val, Vres)
                 /\ \A ln \in OtherLines :
                       objective(o_x0, ObjW, o_u, o_v, ln, o_weights, FALSE) = o_out

\* a call with imaginary fitting on whose two residuals differ
C7_Witness ==
    /\ ObjReturned
    /\ o_fitIm
    /\ Len(o_x0) = 6
    /\ ~REq(ExpectedResidual(o_weights, ObjVData, ObjVFit),
            ExpectedResidual(o_weights, ObjIData, ObjIFit))
    /\ o_out.val[1] > 0

(***************************************************************************)
(* Properties of the area fraction.                                        *)
(***************************************************************************)
\* the positions of a vector that hold an area: Python indices 5, 8, 11, ...
AreaPositions(params) == { i \in 1..Len(params) : i >= 6 /\ (i - 6) % 3 = 0 }

\* the sum of the values of f at the positions S that lie on the given side
\* of the mean of f over S (v >= mean iff v * n >= total)
MajorSum(S, f) ==
    SumOver({ i \in S : f[i] * Cardinality(S) >= SumOver(S, f) }, f)

MinorSum(S, f) ==
    SumOver({ i \in S : f[i] * Cardinality(S) < SumOver(S, f) }, f)

C10_PhaseRoundTrip ==
    /\ p_pc \in {"shifted", "restored"} =>
          \A i \in 1..Len(p_u) :
              LET th == Angles[p_theta]
              IN  /\ REq(p_V[i], <<p_u[i][1] * th.c - p_v[i][1] * th.s, th.d>>)
                  /\ REq(p_I[i], <<p_u[i][1] * th.s + p_v[i][1] * th.c, th.d>>)
    /\ p_pc = "restored" =>
          /\ Len(p_u2) = Len(p_u)
          /\ Len(p_v2) = Len(p_v)
          /\ \A i \in 1..Len(p_u) : REq(p_u2[i], p_u[i]) /\ REq(p_v2[i], p_v[i])

\* two samples rotated by atan(4/3) and back; the rotated values differ
\* from the raw ones
C10_Witness ==
    /\ p_pc = "restored"
    /\ p_theta = 3
    /\ p_u = << <<2, 1>>, <<-1, 1>> >>
    /\ p_v = << <<1, 1>>, <<2, 1>> >>
    /\ p_V = << <<2, 5>>, <<-11, 5>> >>
    /\ p_u2 = p_u
    /\ p_v2 = p_v

(***************************************************************************)
(* Data.brute_phase.                                                       *)
(***************************************************************************)
\* the squared first-last difference at the k-th angle of the scan
ScanError(k) == first_last_error(b_ps2[k])

\* C11: brute_phase returns an angle of the scan from -pi (included) to pi
\* (excluded) whose (V[0] - V[-1])^2 is minimal over the scan, and of the
\* angles that attain the minimum it returns the one scanned first
C11_BrutePhaseFirstMinimum ==
    b_pc = "done" =>
        LET th == arange(-Pi, Pi, b_step)
        IN  /\ th[1] = -Pi
            /\ \A k \in 1..Len(th) : th[k] >= -Pi /\ th[k] < Pi
            /\ \A k \in 1..(Len(th) - 1) : th[k + 1] - th[k] = b_step
            /\ \E k \in 1..Len(th) :
                  /\ b_ret = th[k]
                  /\ \A j \in 1..Len(th) : ScanError(j) >= ScanError(k)
                  /\ \A j \in 1..(k - 1) : ScanError(j) > ScanError(k)

\* the minimum is attained by two angles, neither the first of the scan
C11_Witness ==
    /\ b_pc = "done"
    /\ b_ret > -Pi
    /\ \E j, k \in 1..b_k :
          /\ j < k
          /\ arange(-Pi, Pi, b_step)[j] = b_ret
          /\ ScanError(j) = ScanError(k)
          /\ ScanError(1) > ScanError(j)

(***************************************************************************)
(* run_fit: the two fits.                                                  *)
(***************************************************************************)
\* the object res refers to holds what the k-th call of the minimizer returned
ResHolds(k) ==
    /\ s_res \in 1..Len(s_heap)
    /\ k \in 1..Len(s_calls)
    /\ s_heap[s_res].params = s_calls[k].x
    /\ s_heap[s_res].error = s_calls[k].fun

\* C12: in a run of two fits the params and error the caller reads from the
\* result (and writes to its row) are those the minimizer returned in the
\* last fit that ran, never those of the earlier fit
C12_ResultIsLastStage ==
    /\ s_pc \in {"res1", "seeded"} => Len(s_calls) = 1 /\ ResHolds(1)
    /\ s_pc \in {"res2", "done"} => Len(s_calls) = 2 /\ ResHolds(2)
    /\ s_pc = "done" =>
          /\ s_row.error = s_calls[2].fun
          /\ 5 + Len(s_calls[2].x) = RowColumns => s_row.params = s_calls[2].x

\* both fits ran and returned different vectors and different errors
C12_Witness ==
    /\ s_pc = "done"
    /\ s_calls[1].x # s_calls[2].x
    /\ s_calls[1].fun # s_calls[2].fun
    /\ s_row.params = s_calls[2].x

\* C13: the second fit starts from the parameter vector the first fit
\* produced and is bounded by the supplied bounds
C13_SecondStageStartsFromFirst ==
    Len(s_calls) >= 2 =>
        /\ s_calls[2].x0 = s_calls[1].x
        /\ s_calls[2].bounds = s_bounds
        /\ ~s_calls[2].bounds.none

(***************************************************************************)
(* The swarm of FitUtility.fit.                                            *)
(***************************************************************************)
\* C14: every fit terminates, at the latest when the iteration budget is
\* used up, without an error, and then params and error are set to the best
\* candidate found: no evaluated value is lower than the stored error
C14_FitTerminatesWithBest ==
    /\ <>(w_pc = "done")
    /\ [](w_it <= MaxIter + 1)
    /\ [](w_pc = "done" =>
            /\ w_result.set
            /\ w_result.params \in Positions
            /\ w_result.error = w_f[w_result.params]
            /\ w_result.error = w_low
            /\ w_stop \in {"minfunc", "minstep", "maxiter"})

\* the budget was used up with no stopping test met
C14_Witness ==
    /\ w_pc = "done"
    /\ w_stop = "maxiter"
    /\ w_it = MaxIter + 1
    /\ w_result.set

\* C15: with the particles evaluated in parallel, the positions, the
\* personal bests, the swarm best and the iteration counter change only when
\* the value of every particle for the current iteration is back
C15_UpdateAfterAllCollected ==
    [][ ( /\ w_pc = "map"
          /\ <<w_x, w_p, w_fp, w_g, w_fg, w_it>>' # <<w_x, w_p, w_fp, w_g, w_fg, w_it>> )
        => ( /\ w_pending = {}
             /\ \A i \in Particles :
                   w_fx[i].it = w_it /\ w_fx[i].val = w_f[w_x[i]] ) ]_vars

\* a pool of two workers, past the first update, the second particle's value
\* back before the first one's
C15_Witness ==
    /\ w_pc = "map"
    /\ w_processes > 1
    /\ w_it >= 1
    /\ w_pending = {1}
    /\ w_fx[2].it = w_it
    /\ w_fx[1].it < w_it

\* C19: the weights are built once per fit, before the first evaluation of
\* the objective, and every evaluation is given that same weight field
C19_WeightsBuiltOnce ==
    /\ w_built <= 1
    /\ w_used \subseteq {1}
    /\ w_pc \in {"ready", "map", "done"} => w_built = 1 /\ w_weights = 1
    /\ w_low # inf => w_used = {1}

\* evaluations of two iterations were made, all with the one weight field
C19_Witness ==
    /\ w_pc = "done"
    /\ w_it >= 2
    /\ w_built = 1
    /\ w_used = {1}

(***************************************************************************)
(* The objective on shared arrays.                                         *)
(***************************************************************************)
\* the arrays an evaluation has bound to V_data, V_fit, I_data, I_fit
OwnAddrs(e) ==
    { a \in {m_env[e].V_data, m_env[e].V_fit, m_env[e].I_data, m_env[e].I_fit} : a # 0 }

\* C16: an evaluation of the objective changes none of the arrays it is
\* given (w, u, v, the weights, the parameter vectors); its data and fit
\* curves are arrays it made itself; and with another evaluation running
\* in between it returns what it returns on its own
C16_EvaluationLeavesInputsUnchanged ==
    /\ [][\A a \in Shared : m_heap'[a] = m_heap[a]]_vars
    /\ [](\A e \in Evaluations :
            /\ m_pc[e] \in {"peaks", "done"} =>
                  /\ {m_env[e].V_data, m_env[e].V_fit} \subseteq OwnAddrs(e)
                  /\ \A a \in OwnAddrs(e) : a \notin Shared /\ m_heap[a].by = e
            /\ m_pc[e] = "done" =>
                  m_out[e] = objective(m_heap[AddrX0(e)].val, m_heap[AddrW].val,
                                       m_heap[AddrU].val, m_heap[AddrV].val, m_line[e],
                                       m_heap[AddrWeights].val, m_fitIm).val)

\* both evaluations returned, their statements interleaved: an array of the
\* second was made between two arrays of the first
C16_Witness ==
    /\ \A e \in Evaluations : m_pc[e] = "done"
    /\ m_fitIm
    /\ \E a, b, c \in DOMAIN m_heap :
          /\ a < b /\ b < c
          /\ m_heap[a].by = 1 /\ m_heap[b].by = 2 /\ m_heap[c].by = 1

(***************************************************************************)
(* The data object under fit and generate_result.                          *)
(***************************************************************************)
\* C17: no call of fit or generate_result changes the data object: w, u, v,
\* every other attribute and the peaks stay what they were
C17_DataObjectNeverChanges == [][d_data' = d_data]_vars

(***************************************************************************)
(* Data.select_bounds.                                                     *)
(***************************************************************************)
\* the w, u, v of the Data object select_bounds is called on
CropSpectrum == << c_heap[c_data.w], c_heap[c_data.u], c_heap[c_data.v] >>

\* C18: the bounding operation leaves the w, u, v of the Spectrum it is
\* applied to unchanged (the restricted arrays belong to a new Spectrum)
C18_CropLeavesSpectrumUnchanged == [][CropSpectrum' = CropSpectrum]_vars

(***************************************************************************)
(* The layout of the vectors.                                              *)
(***************************************************************************)
\* the positions of the globals and of k complete triples
TriplePositions(k) == 1..(3 + 3 * k)

\* C20: generate_initial_conditions returns a lower and an upper vector of
\* length 3 + 3 * len(peaks), so (len - 3) % 3 = 0; the objective and
\* generate_result read the three globals and complete triples only: on a
\* vector of that layout they read every position once the loop is done,
\* and on any other vector they raise instead of returning
C20_VectorsAreGlobalsPlusTriples ==
    /\ l_pc \in {"bounds", "evaluated", "derived"} =>
          /\ Len(l_lower) = 3 + 3 * Len(l_peaks)
          /\ Len(l_upper) = 3 + 3 * Len(l_peaks)
          /\ (Len(l_lower) - 3) % 3 = 0 /\ (Len(l_upper) - 3) % 3 = 0
    /\ l_pc \in {"evaluated", "derived"} =>
          IF Len(l_x) >= 3 /\ (Len(l_x) - 3) % 3 = 0
          THEN /\ ~l_objRead.raised
               /\ l_objRead.read = TriplePositions(l_objRead.triples)
               /\ l_objRead.read = 1..Len(l_x)
          ELSE l_objRead.raised
    /\ l_pc = "derived" =>
          /\ (Len(l_x) - 3) % 3 = 0
          /\ ~l_resRead.raised
          /\ l_resRead.read = TriplePositions(l_resRead.triples)
          /\ l_resRead.read = 1..Len(l_x)

\* bounds of three peaks were built and a vector of three triples was read
\* by the objective and by generate_result
C20_Witness ==
    /\ l_pc = "derived"
    /\ Len(l_peaks) = 3
    /\ Len(l_lower) = 12
    /\ l_resRead.triples = 3
    /\ l_objRead.triples = 3

(***************************************************************************)
(* Fits one after another.                                                 *)
(***************************************************************************)
\* C21: two fits of the same stage with equal inputs have equal params and
\* error, whatever fits were run before them
C21_EqualInputsEqualResults ==
    \A i \in DOMAIN r_log, j \in DOMAIN r_log :
        (r_log[i].stage = r_log[j].stage /\ r_log[i].inputs = r_log[j].inputs)
            => (r_log[i].params = r_log[j].params /\ r_log[i].error = r_log[j].error)

\* the same for the fits of scipy.optimize.minimize alone
C21_MinimizeRepeats ==
    \A i \in DOMAIN r_log, j \in DOMAIN r_log :
        ( /\ r_log[i].stage = "minimize"
          /\ r_log[j].stage = "minimize"
          /\ r_log[i].inputs = r_log[j].inputs )
            => (r_log[i].params = r_log[j].params /\ r_log[i].error = r_log[j].error)

(***************************************************************************)
(* A FitUtility object and its methods.                                    *)
(***************************************************************************)
\* generate_result ran no optimizer and left params and error as they were
DerivationKeptFit ==
    f_last.op = "generate_result" =>
        /\ f_optCalls = f_last.before.calls
        /\ f_result.params = f_last.before.params
        /\ f_result.error = f_last.before.error

\* C22: result derivation reconstructs curves only: it runs no optimizer
\* and leaves params and error unchanged, and it can be applied to a given
\* parameter vector while no optimization has run
C22_DerivationWithoutOptimization ==
    /\ DerivationKeptFit
    /\ f_optCalls = 0 => ENABLED UseGenerateResult

\* the part of C22 about the call itself: no optimizer run, params and
\* error unchanged, and the curves are those of the stored params
C22_DerivationKeepsFit ==
    /\ DerivationKeptFit
    /\ (f_last.op = "generate_result" /\ ~f_last.raised) =>
          f_result.curves = f_result.params

\* curves were derived for the vector the caller holds, after the caller
\* put it in the place of the optimizer's result
C22_Witness ==
    /\ f_last.op = "generate_result"
    /\ f_result.curves = f_given
    /\ f_last.before.params = f_given
    /\ f_optCalls >= 1

\* curves are never derived while no optimization has run
C22_DerivedOnlyAfterOptimizer == f_last.op = "generate_result" => f_optCalls >= 1

C24_ConstructorFitsOnce ==
    /\ f_pc = "ready" => f_result.set
    /\ (f_pc = "ready" /\ f_via = "class") => f_optCalls = 1
    /\ f_last.op \in {"generate_result", "summary", "_calculate_area_fraction"}
          => ~f_last.raised

\* an object made by the constructor, its summary read
C24_Witness ==
    /\ f_pc = "ready"
    /\ f_via = "class"
    /\ f_last.op = "summary"
    /\ f_optCalls = 1

(***************************************************************************)
(* The weights before smoothing, for any list of peaks.                    *)
(***************************************************************************)
\* the first and the last sample of the range of peak k
PeakLo(k) ==
    Min2(NearestIdx(DataW, peaks[k].bounds[1]), NearestIdx(DataW, peaks[k].bounds[2]))

PeakHi(k) ==
    Max2(NearestIdx(DataW, peaks[k].bounds[1]), NearestIdx(DataW, peaks[k].bounds[2]))

\* the peaks whose range holds sample i, and the last of them in the list
Covering(i) == { k \in 1..Len(peaks) : PeakLo(k) <= i /\ i <= PeakHi(k) }

LastCovering(i) == CHOOSE k \in Covering(i) : \A j \in Covering(i) : j <= k

\* the largest height, and the largest height without its sign
MaxHeight ==
    CHOOSE m \in { peaks[k].height : k \in 1..Len(peaks) } :
        \A k \in 1..Len(peaks) : peaks[k].height <= m

MaxAbsHeight ==
    CHOOSE m \in { Abs(peaks[k].height) : k \in 1..Len(peaks) } :
        \A k \in 1..Len(peaks) : Abs(peaks[k].height) <= m

\* wt (in tenths) is (top / h) ^ expon, expon being e2 / 2: the square of
\* wt / 10 times h ^ e2 is top ^ e2
IsRatioPower(wt, top, h, e2) ==
    /\ wt >= 0
    /\ wt * wt * IntPow(h, e2) = 100 * IntPow(top, e2)

C25_AreaFractionBelowOne ==
    g_pc = "called" =>
        /\ \E k \in 1..Len(g_areas) : g_areas[k] >= g_m
        /\ g_fraction[2] > 0
        /\ 0 <= g_fraction[1]
        /\ g_fraction[1] < g_fraction[2]
        /\ (\A k \in 1..Len(g_areas) : g_areas[k] = g_areas[1]) =>
              /\ \A k \in 1..Len(g_areas) : ~(g_areas[k] < g_m)
              /\ g_fraction[1] = 0

\* whatever the rounding, the call returns: the sum peaks + sats is never 0,
\* and the fraction lies between 0 and 1, both included
C25_FractionComputed ==
    g_pc = "called" =>
        /\ g_fraction[2] > 0
        /\ 0 <= g_fraction[1]
        /\ g_fraction[1] <= g_fraction[2]

\* three equal areas whose mean is rounded above them
C25_Witness ==
    /\ g_pc = "called"
    /\ g_areas = <<26, 26, 26>>
    /\ g_m = 27
    /\ g_fraction = <<80, 80>>

(***************************************************************************)
(* The bounds of Data.generate_initial_conditions, in hundredths.          *)
(***************************************************************************)
\* the three globals: theta in [p0 - 0.01, p0 + 0.01], r in [0, 1],
\* y_offset in [-0.01, 0.01]
GlobalBounds ==
    /\ Len(l_lower) >= 3 /\ Len(l_upper) >= 3
    /\ l_lower[1] = l_p0 - 1 /\ l_upper[1] = l_p0 + 1
    /\ l_lower[2] = 0 /\ l_upper[2] = 100
    /\ l_lower[3] = -1 /\ l_upper[3] = 1

\* width, loc and area of peak k lie inside their intervals
PeakInside(k) ==
    /\ l_lower[3 * k + 1] <= 100 * l_peaks[k].width
    /\ 100 * l_peaks[k].width <= l_upper[3 * k + 1]
    /\ l_lower[3 * k + 2] <= 100 * l_peaks[k].loc
    /\ 100 * l_peaks[k].loc <= l_upper[3 * k + 2]
    /\ l_lower[3 * k + 3] <= 100 * l_peaks[k].area
    /\ 100 * l_peaks[k].area <= l_upper[3 * k + 3]

\* width > 0, area > 0 and bounds[0] <= loc <= bounds[1]
ProperPeak(k) ==
    /\ l_peaks[k].width > 0
    /\ l_peaks[k].area > 0
    /\ l_peaks[k].bounds[1] <= l_peaks[k].loc
    /\ l_peaks[k].loc <= l_peaks[k].bounds[2]

\* C26: the bounds returned by generate_initial_conditions are well
\* ordered: lower[i] <= upper[i] at every position, the globals have their
\* fixed intervals, and a peak with width > 0, area > 0 and its location
\* within its bounds has its own width, loc and area inside its intervals
C26_BoundsWellOrdered ==
    l_pc # "data" =>
        /\ Len(l_lower) = Len(l_upper)
        /\ \A i \in 1..Len(l_lower) : l_lower[i] <= l_upper[i]
        /\ GlobalBounds
        /\ \A k \in 1..Len(l_peaks) : ProperPeak(k) => PeakInside(k)

\* the same without the order at the positions of the peaks that are not
\* proper: the intervals of the globals and of every proper peak are well
\* ordered and hold the peak's own values
C26_ProperPeaksWellOrdered ==
    l_pc # "data" =>
        /\ Len(l_lower) = Len(l_upper)
        /\ GlobalBounds
        /\ \A i \in 1..3 : l_lower[i] <= l_upper[i]
        /\ \A k \in 1..Len(l_peaks) :
              ProperPeak(k) =>
                  /\ PeakInside(k)
                  /\ \A j \in 1..3 : l_lower[3 * k + j] <= l_upper[3 * k + j]

\* bounds were built for a proper peak and for a peak of negative area
C26_Witness ==
    /\ l_pc = "bounds"
    /\ Len(l_peaks) = 2
    /\ ProperPeak(1)
    /\ l_peaks[2].area < 0
    /\ l_lower[9] > l_upper[9]

(***************************************************************************)
(* Repeated calls of Data.select_bounds.                                   *)
(***************************************************************************)
\* the samples of the spectrum as loaded that lie strictly inside every
\* (low, high) applied so far
KeptSamples ==
    { i \in 1..Len(c_heap[1]) :
        \A k \in 1..Len(c_applied) :
            c_applied[k].low < c_heap[1][i] /\ c_heap[1][i] < c_applied[k].high }

\* the j-th smallest member of S
Nth(S, j) == CHOOSE i \in S : Cardinality({ x \in S : x <= i }) = j

\* a is the array orig restricted to the samples in S, in their order
IsRestriction(a, orig, S) ==
    /\ Len(a) = Cardinality(S)
    /\ \A j \in 1..Len(a) : a[j] = orig[Nth(S, j)]

\* C27: after any sequence of select_bounds(low, high) calls the object's
\* w, u and v have equal length and hold, in the original order, exactly
\* the samples with low < w < high for every pair applied so far (a sample
\* on a bound is dropped), and a call with the bounds of the call before it
\* changes nothing
C27_CropKeepsSamplesInside ==
    (c_pc = "done" /\ \A k \in 1..Len(c_applied) : c_applied[k].given) =>
        /\ Len(c_heap[c_data.w]) = Len(c_heap[c_data.u])
        /\ Len(c_heap[c_data.w]) = Len(c_heap[c_data.v])
        /\ IsRestriction(c_heap[c_data.w], c_heap[1], KeptSamples)
        /\ IsRestriction(c_heap[c_data.u], c_heap[2], KeptSamples)
        /\ IsRestriction(c_heap[c_data.v], c_heap[3], KeptSamples)
        /\ \A k \in 2..Len(c_applied) :
              ( /\ c_applied[k].low = c_applied[k - 1].low
                /\ c_applied[k].high = c_applied[k - 1].high )
              => /\ c_heap[c_applied[k].data.w] = c_heap[c_applied[k - 1].data.w]
                 /\ c_heap[c_applied[k].data.u] = c_heap[c_applied[k - 1].data.u]
                 /\ c_heap[c_applied[k].data.v] = c_heap[c_applied[k - 1].data.v]

\* select_bounds(15, 45) and then select_bounds(20, 45): the sample at 20,
\* kept by the first call, lies on the bound of the second and is dropped
C27_Witness ==
    /\ c_pc = "done"
    /\ Len(c_applied) = 2
    /\ c_applied[1] = [low |-> 15, high |-> 45, given |-> TRUE, data |-> c_applied[1].data]
    /\ c_applied[2].low = 20 /\ c_applied[2].high = 45 /\ c_applied[2].given
    /\ c_heap[c_applied[1].data.w] = <<20, 30, 40>>
    /\ c_heap[c_data.w] = <<30, 40>>
    /\ Len(c_heap[c_data.u]) = 2

(***************************************************************************)
(* C28                                                                     *)
(***************************************************************************)
\* the frequencies of the click events PeakSelector received
EventXs == {k_events[i][1] : i \in DOMAIN k_events}

\* the orders in which three click events can arrive
Orders3 == {p \in [1..3 -> 1..3] : \A i, j \in 1..3 : i # j => p[i] # p[j]}

\* BoundsSelector's figure closes with the second click event and receives
\* no third one
BoundsClosesAtTwo ==
    /\ Len(k_bounds) <= 2
    /\ k_bsOpen <=> Len(k_bounds) < 2
    /\ k_crop.applied => Len(k_bounds) = 2

\* the crop of BoundsSelector runs from the smaller to the larger of the two
\* clicked frequencies, whichever was clicked first
BoundsCropMinMax ==
    k_crop.applied =>
        /\ {k_crop.low, k_crop.high} = {k_bounds[1], k_bounds[2]}
        /\ k_crop.low <= k_crop.high

\* PeakSelector has parsed once exactly when its third click has arrived,
\* and receives no fourth one
PeakParsesOnceAtThree ==
    /\ Len(k_events) <= 3
    /\ k_psOpen <=> Len(k_events) < 3
    /\ k_parsed = IF Len(k_events) = 3 THEN 1 ELSE 0

\* the parsed peak has the smallest and the largest clicked frequency as its
\* bounds and the remaining one as its location estimate, and every order of
\* the same three clicks gives the same peak
PeakFromClickSet ==
    k_parsed > 0 =>
        /\ k_peak.bounds[1] \in EventXs
        /\ k_peak.bounds[2] \in EventXs
        /\ \A x \in EventXs : k_peak.bounds[1] <= x /\ x <= k_peak.bounds[2]
        /\ k_peak.peakest = k_events[1][1] + k_events[2][1] + k_events[3][1]
                            - k_peak.bounds[1] - k_peak.bounds[2]
        /\ k_peak.width = k_peak.bounds[2] - k_peak.bounds[1]
        /\ \A p \in Orders3 :
              parse_points([i \in 1..3 |-> k_events[p[i]]]) = k_peak

\* C28: the interactive selectors depend only on the set of clicks and not
\* on their order: BoundsSelector closes after exactly two click events and
\* crops to (min, max) of the two clicked frequencies; PeakSelector parses
\* exactly once, when the third click arrives, with the smallest and largest
\* clicked frequency as the peak bounds and the middle one as the location
\* estimate.
C28_SelectorsIgnoreClickOrder ==
    /\ BoundsClosesAtTwo
    /\ BoundsCropMinMax
    /\ PeakParsesOnceAtThree
    /\ PeakFromClickSet

\* both selectors have finished on clicks made from right to left and out of
\* order: the crop runs from 5 to 35, the peak from 5 to 45 around 20
C28_Witness ==
    /\ k_bounds = <<35, 5>>
    /\ k_crop = [applied |-> TRUE, low |-> 5, high |-> 35]
    /\ k_events = <<<<45, 0>>, <<5, 1>>, <<20, 1>>>>
    /\ k_parsed = 1
    /\ k_peak = [bounds |-> <<5, 45>>, width |-> 40, peakest |-> 20]

====
